---- MODULE Spec2Model ----
(***************************************************************************)
(* A model of src/browser/BrowserService.cpp (KeePassXC browser            *)
(* integration): the credential search, the access check, the ranking and  *)
(* the single confirmation dialog of BrowserService.                       *)
(*                                                                         *)
(* QString values are sequences of one-character strings ("x.c" is         *)
(* <<"x", ".", "c">>), so that startsWith, endsWith and the label count    *)
(* are computed, not assumed.  QUrl(text) is the record of scheme,         *)
(* host, port and path that QUrl reads from the text, and UrlToString      *)
(* writes it back.                                                         *)
(***************************************************************************)
EXTENDS Integers, Sequences, FiniteSets, TLC

VARIABLES
    m_dialogActive,           \* BrowserService::m_dialogActive
    m_currentDatabaseWidget,  \* BrowserService::m_currentDatabaseWidget (NoWidget = null)
    locked,                   \* DatabaseWidget::isLocked() of every open tab
    settings,                 \* browserSettings(): the set of options that are on
    entryFlags,               \* per option, the entries whose custom data / expiry sets it
    entryConfig,              \* per entry, the persisted BrowserEntryConfig (NoConfig = none)
    dialogs,                  \* the stack of BrowserAccessControlDialog::exec() calls in progress
    response,                 \* the reply of the findMatchingEntries call the last step finished
    crashed,                  \* a null QSharedPointer<Database> was dereferenced
    associations,             \* per tab, the keys persisted in the database's custom data
    acc                       \* inputs and result of the pure-function specifications

vars == <<m_dialogActive, m_currentDatabaseWidget, locked, settings, entryFlags,
          entryConfig, dialogs, response, crashed, associations, acc>>

-----------------------------------------------------------------------------
(* Bounds of the model *)

\* nested BrowserAccessControlDialog::exec() calls the model can hold
MaxDepth == 2

\* messages the transport hands to processClientMessage in one run of the model
MaxMessages == 3

-----------------------------------------------------------------------------
(* QString *)

EmptyStr == <<>>

StartsWith(s, p) == Len(p) <= Len(s) /\ SubSeq(s, 1, Len(p)) = p

EndsWith(s, p) == Len(p) <= Len(s) /\ SubSeq(s, Len(s) - Len(p) + 1, Len(s)) = p

ContainsChar(s, c) == \E i \in 1..Len(s) : s[i] = c

CountChar(s, c) == Cardinality({i \in 1..Len(s) : s[i] = c})

\* QString::indexOf(c): 0-based, -1 when absent
IndexOfChar(s, c) ==
    IF ContainsChar(s, c) THEN (CHOOSE i \in 1..Len(s) : s[i] = c /\ \A j \in 1..(i-1) : s[j] # c) - 1
    ELSE -1

\* QString::mid(pos): the rest of the string from 0-based position pos
Mid(s, pos) == SubSeq(s, pos + 1, Len(s))

-----------------------------------------------------------------------------
(* BrowserEntryConfig: the AccessRule persisted in an entry's custom data.  *)
(* Its code is not part of BrowserService.cpp; it follows section 4.2 of    *)
(* the design: two host sets, mutually exclusive per host, and a realm.     *)

\* a default-constructed BrowserEntryConfig; stored tells whether the entry's custom data
\* holds a rule, which is what load() returns
EmptyConfig == [stored |-> FALSE, allowed |-> {}, denied |-> {}, realm |-> ""]

\* the custom data of an entry that holds no rule
NoConfig == EmptyConfig

\* BrowserEntryConfig::load(entry): the stored rule, or the default one when load() fails
ConfigLoad(stored) == IF stored.stored THEN stored ELSE EmptyConfig

\* BrowserEntryConfig::save(entry)
ConfigSave(cfg) == [cfg EXCEPT !.stored = TRUE]

ConfigAllow(cfg, host) ==
    [cfg EXCEPT !.allowed = @ \cup {host}, !.denied = @ \ {host}]

ConfigDeny(cfg, host) ==
    [cfg EXCEPT !.denied = @ \cup {host}, !.allowed = @ \ {host}]

ConfigSetRealm(cfg, realm) == [cfg EXCEPT !.realm = realm]

ConfigIsAllowed(cfg, host) == host \in cfg.allowed

ConfigIsDenied(cfg, host) == host \in cfg.denied

-----------------------------------------------------------------------------
(* BrowserService::checkAccess *)

Access == {"Allowed", "Denied", "Unknown"}

\* checkAccess with the realm check moved in front of the host checks
checkAccess_RealmFirst(stored, expired, allowExpired, host, submitHost, realm) ==
    LET config == ConfigLoad(stored) IN
    IF ~stored.stored THEN "Unknown"
    ELSE IF expired THEN (IF allowExpired THEN "Allowed" ELSE "Denied")
    ELSE IF realm # "" /\ config.realm # realm THEN "Denied"
    ELSE IF ConfigIsAllowed(config, host)
            /\ (submitHost = EmptyStr \/ ConfigIsAllowed(config, submitHost)) THEN "Allowed"
    ELSE IF ConfigIsDenied(config, host)
            \/ (submitHost # EmptyStr /\ ConfigIsDenied(config, submitHost)) THEN "Denied"
    ELSE "Unknown"

\* checkAccess with the submit host left out of the allow rule
checkAccess_HostOnly(stored, expired, allowExpired, host, submitHost, realm) ==
    LET config == ConfigLoad(stored) IN
    IF ~stored.stored THEN "Unknown"
    ELSE IF expired THEN (IF allowExpired THEN "Allowed" ELSE "Denied")
    ELSE IF ConfigIsAllowed(config, host) THEN "Allowed"
    ELSE IF ConfigIsDenied(config, host)
            \/ (submitHost # EmptyStr /\ ConfigIsDenied(config, submitHost)) THEN "Denied"
    ELSE IF realm # "" /\ config.realm # realm THEN "Denied"
    ELSE "Unknown"

\* checkAccess with the expiry rule evaluated behind the host rules and the realm
checkAccess_ExpiryLast(stored, expired, allowExpired, host, submitHost, realm) ==
    LET config == ConfigLoad(stored) IN
    IF ~stored.stored THEN "Unknown"
    ELSE IF ConfigIsAllowed(config, host)
            /\ (submitHost = EmptyStr \/ ConfigIsAllowed(config, submitHost)) THEN "Allowed"
    ELSE IF ConfigIsDenied(config, host)
            \/ (submitHost # EmptyStr /\ ConfigIsDenied(config, submitHost)) THEN "Denied"
    ELSE IF realm # "" /\ config.realm # realm THEN "Denied"
    ELSE IF expired THEN (IF allowExpired THEN "Allowed" ELSE "Denied")
    ELSE "Unknown"

checkAccess(stored, expired, allowExpired, host, submitHost, realm) ==
    LET config == ConfigLoad(stored) IN
    IF ~stored.stored THEN "Unknown"
    ELSE IF expired THEN (IF allowExpired THEN "Allowed" ELSE "Denied")
    ELSE IF ConfigIsAllowed(config, host)
            /\ (submitHost = EmptyStr \/ ConfigIsAllowed(config, submitHost)) THEN "Allowed"
    ELSE IF ConfigIsDenied(config, host)
            \/ (submitHost # EmptyStr /\ ConfigIsDenied(config, submitHost)) THEN "Denied"
    ELSE IF realm # "" /\ config.realm # realm THEN "Denied"
    ELSE "Unknown"

-----------------------------------------------------------------------------
(* QUrl, as BrowserService uses it.  Qt is a library: what is modelled is   *)
(* what its parser reads from the text and what toString() writes.          *)

SchemeSep == <<":", "/", "/">>

\* QString::contains(sub), sub not empty
ContainsStr(s, sub) ==
    \E i \in 1..(Len(s) - Len(sub) + 1) : SubSeq(s, i, i + Len(sub) - 1) = sub

\* 1-based position of the first occurrence of sub in s, 0 when absent
FirstPos(s, sub) ==
    IF ContainsStr(s, sub)
    THEN CHOOSE i \in 1..(Len(s) - Len(sub) + 1) :
            /\ SubSeq(s, i, i + Len(sub) - 1) = sub
            /\ \A j \in 1..(i - 1) : SubSeq(s, j, j + Len(sub) - 1) # sub
    ELSE 0

Digits == <<"0", "1", "2", "3", "4", "5", "6", "7", "8", "9">>

IsDigit(c) == \E d \in 1..10 : Digits[d] = c

DigitValue(c) == (CHOOSE d \in 1..10 : Digits[d] = c) - 1

RECURSIVE PortValue(_)
PortValue(ds) ==
    IF ds = <<>> THEN 0
    ELSE 10 * PortValue(SubSeq(ds, 1, Len(ds) - 1)) + DigitValue(ds[Len(ds)])

\* the characters handleURL rejects, which are also no part of a host name
\* (the grave accent is written "backtick")
IllegalChars == {"<", ">", "^", "backtick", "{", "|", "}"}

\* what QUrl reads when the text does not parse: an empty, invalid URL
InvalidUrl == [scheme |-> <<>>, host |-> <<>>, port |-> -1, portText |-> <<>>, path |-> <<>>]

\* the text behind "scheme://"
AfterScheme(text) == SubSeq(text, FirstPos(text, SchemeSep) + 3, Len(text))

\* the authority is what stands before the first "/" behind the scheme, the path the rest
AuthorityOf(rest) ==
    IF ContainsChar(rest, "/") THEN SubSeq(rest, 1, FirstPos(rest, <<"/">>) - 1) ELSE rest

PathOf(rest) ==
    IF ContainsChar(rest, "/") THEN SubSeq(rest, FirstPos(rest, <<"/">>), Len(rest)) ELSE <<>>

\* host and port are separated by the first ":" of the authority
HostOf(authority) ==
    IF ContainsChar(authority, ":") THEN SubSeq(authority, 1, FirstPos(authority, <<":">>) - 1)
    ELSE authority

PortOf(authority) ==
    IF ContainsChar(authority, ":")
    THEN SubSeq(authority, FirstPos(authority, <<":">>) + 1, Len(authority))
    ELSE <<>>

\* the URL of a scheme, a host, a port and a path, invalid when host or port are malformed
MakeUrl(scheme, hostText, portText, path) ==
    IF /\ \A i \in 1..Len(hostText) : hostText[i] \notin IllegalChars
       /\ \A i \in 1..Len(portText) : IsDigit(portText[i])
    THEN [scheme |-> scheme, host |-> hostText,
          port |-> IF portText = <<>> THEN -1 ELSE PortValue(portText),
          portText |-> portText, path |-> path]
    ELSE InvalidUrl

ParseAuthority(scheme, authority, path) ==
    MakeUrl(scheme, HostOf(authority), PortOf(authority), path)

ParseHierarchy(scheme, rest) == ParseAuthority(scheme, AuthorityOf(rest), PathOf(rest))

\* QUrl(text): scheme, host, port (-1 = none) and path.  A text without "://" is a
\* relative reference: all of it is path, and scheme and host are empty.
QUrl(text) ==
    IF ~ContainsStr(text, SchemeSep) THEN [InvalidUrl EXCEPT !.path = text]
    ELSE ParseHierarchy(SubSeq(text, 1, FirstPos(text, SchemeSep) - 1), AfterScheme(text))

HttpScheme == <<"h", "t", "t", "p">>

HttpsScheme == <<"h", "t", "t", "p", "s">>

\* QUrl::fromUserInput(text): a text without a scheme is read as an http:// address
FromUserInput(text) ==
    IF text = <<>> THEN QUrl(text)
    ELSE IF ContainsStr(text, SchemeSep) THEN QUrl(text)
    ELSE QUrl(HttpScheme \o SchemeSep \o text)

SetScheme(qurl, scheme) == [qurl EXCEPT !.scheme = scheme]

\* QUrl::StripTrailingSlash: trailing slashes go, the root path "/" stays
RECURSIVE StripSlash(_)
StripSlash(path) ==
    IF Len(path) > 1 /\ path[Len(path)] = "/" THEN StripSlash(SubSeq(path, 1, Len(path) - 1))
    ELSE path

\* QUrl::toString(StripTrailingSlash), and with RemovePath|RemoveQuery|RemoveFragment
\* when removePath is set
UrlToString(qurl, removePath) ==
    LET s == IF qurl.scheme = <<>> THEN <<>> ELSE qurl.scheme \o <<":">>
        a == IF qurl.host = <<>> THEN <<>>
             ELSE <<"/", "/">> \o qurl.host
                    \o (IF qurl.portText = <<>> THEN <<>> ELSE <<":">> \o qurl.portText)
        p == IF removePath THEN <<>> ELSE StripSlash(qurl.path)
    IN s \o a \o p

-----------------------------------------------------------------------------
(* BrowserService::baseDomain, removeFirstDomain and handleURL *)

\* The public suffixes QUrl::topLevelDomain() knows in this model: ".c" and ".o.u"
PublicSuffixes == {<<".", "c">>, <<".", "o", ".", "u">>}

\* QUrl::topLevelDomain(): the longest public suffix the host ends with, or empty
TopLevelDomain(host) ==
    LET fits == {t \in PublicSuffixes : EndsWith(host, t) /\ Len(t) < Len(host)} IN
    IF fits = {} THEN <<>>
    ELSE CHOOSE t \in fits : \A u \in fits : Len(u) <= Len(t)

\* QHostAddress(hostname).isNull() is false: a dotted IPv4 literal
IsIpAddress(hostname) ==
    /\ hostname # <<>>
    /\ \A i \in 1..Len(hostname) : IsDigit(hostname[i]) \/ hostname[i] = "."
    /\ CountChar(hostname, ".") = 3

\* QString::split('.').last()
LastLabel(s) ==
    LET dots == {i \in 1..Len(s) : s[i] = "."} IN
    IF dots = {} THEN s
    ELSE SubSeq(s, (CHOOSE i \in dots : \A j \in dots : j <= i) + 1, Len(s))

\* lines 1047-1063 of baseDomain, for the host and the top-level domain QUrl reports
BaseDomainOf(hostname, host, tld) ==
    IF IsIpAddress(hostname) THEN hostname
    ELSE IF host = <<>> \/ (tld # <<>> /\ ~ContainsStr(host, tld)) THEN <<>>
    ELSE LastLabel(SubSeq(host, 1, Len(host) - Len(tld))) \o tld

BaseDomainOfHost(hostname, host) == BaseDomainOf(hostname, host, TopLevelDomain(host))

baseDomain(hostname) == BaseDomainOfHost(hostname, FromUserInput(hostname).host)

\* removeFirstDomain without the test of line 970: the label is stripped whenever the
\* hostname has a dot
removeFirstDomain_ToBareLabel(hostname) ==
    IF IndexOfChar(hostname, ".") < 0 THEN <<hostname, FALSE>>
    ELSE <<Mid(hostname, IndexOfChar(hostname, ".") + 1),
           Mid(hostname, IndexOfChar(hostname, ".") + 1) # <<>> >>

\* removeFirstDomain(hostname): <<changed hostname, return value>>
removeFirstDomain(hostname) ==
    LET pos == IndexOfChar(hostname, ".") IN
    IF pos < 0 THEN <<hostname, FALSE>>
    ELSE IF CountChar(hostname, ".") > 1
         THEN <<Mid(hostname, pos + 1), Mid(hostname, pos + 1) # <<>> >>
         ELSE <<hostname, FALSE>>

FileScheme == <<"f", "i", "l", "e", ":", "/", "/">>

\* lines 997-1034 of handleURL with the hosts compared for equality at line 1030
MatchUrls_ExactHost(entryUrl, entryQUrl, url, siteQUrl, submitUrl, matchUrlScheme) ==
    IF ContainsStr(url, FileScheme) THEN entryUrl = submitUrl
    ELSE IF entryQUrl.host = <<>> THEN FALSE
    ELSE IF entryQUrl.port > 0 /\ entryQUrl.port # siteQUrl.port THEN FALSE
    ELSE IF matchUrlScheme /\ entryQUrl.scheme # <<>>
            /\ entryQUrl.scheme # siteQUrl.scheme THEN FALSE
    ELSE IF \E i \in 1..Len(entryUrl) : entryUrl[i] \in IllegalChars THEN FALSE
    ELSE IF baseDomain(siteQUrl.host) # baseDomain(entryQUrl.host) THEN FALSE
    ELSE siteQUrl.host = entryQUrl.host

\* lines 997-1034 of handleURL, for the parsed entry URL and the parsed page URL
MatchUrls(entryUrl, entryQUrl, url, siteQUrl, submitUrl, matchUrlScheme) ==
    IF ContainsStr(url, FileScheme) THEN entryUrl = submitUrl
    ELSE IF entryQUrl.host = <<>> THEN FALSE
    ELSE IF entryQUrl.port > 0 /\ entryQUrl.port # siteQUrl.port THEN FALSE
    ELSE IF matchUrlScheme /\ entryQUrl.scheme # <<>>
            /\ entryQUrl.scheme # siteQUrl.scheme THEN FALSE
    ELSE IF \E i \in 1..Len(entryUrl) : entryUrl[i] \in IllegalChars THEN FALSE
    ELSE IF baseDomain(siteQUrl.host) # baseDomain(entryQUrl.host) THEN FALSE
    ELSE EndsWith(siteQUrl.host, entryQUrl.host)

\* lines 985-995 of handleURL: the entry URL as handleURL parses it
EntryQUrl(entryUrl, matchUrlScheme) ==
    IF ContainsStr(entryUrl, SchemeSep) THEN QUrl(entryUrl)
    ELSE IF matchUrlScheme THEN SetScheme(FromUserInput(entryUrl), HttpsScheme)
    ELSE FromUserInput(entryUrl)

handleURL(entryUrl, url, submitUrl, matchUrlScheme) ==
    IF entryUrl = <<>> THEN FALSE
    ELSE MatchUrls(entryUrl, EntryQUrl(entryUrl, matchUrlScheme), url, QUrl(url),
                   submitUrl, matchUrlScheme)

-----------------------------------------------------------------------------
(* The databases of the model: two tabs, three entries *)

NoWidget == "NoWidget"

\* MainWindow::getOpenDatabases(), in tab order
OpenDatabases == <<"w1", "w2">>

DbWidgets == {"w1", "w2"}

Entries == {"e1", "e2", "e3"}

UrlXC == <<"h", "t", "t", "p", "s", ":", "/", "/", "x", ".", "c">>

UrlAXC == <<"h", "t", "t", "p", "s", ":", "/", "/", "a", ".", "x", ".", "c">>

HostXC == <<"x", ".", "c">>

HostAXC == <<"a", ".", "x", ".", "c">>

UrlABCD == <<"h", "t", "t", "p", "s", ":", "/", "/", "a", ".", "b", ".", "c", ".", "d">>

HostABCD == <<"a", ".", "b", ".", "c", ".", "d">>

\* the pages the browser asks credentials for, and what it sends along
RequestUrls == {UrlAXC}

\* the pages of the searches that are followed round by round
SearchUrls == {UrlAXC, UrlABCD}

SubmitUrls == {<<>>}

Realms == {""}

KeyLists == {<< <<"c1", "k1">> >>}

\* what the browser sends along in the requests whose confirmations store rules: a
\* form that submits to another host of the same site, and an HTTP Basic Auth realm
RememberSubmitUrls == {<<>>, UrlXC}

RememberRealms == {"", "r"}

\* Entry::url()
EntryUrl(e) ==
    CASE e = "e1" -> UrlXC
      [] e = "e2" -> HostXC
      [] e = "e3" -> UrlAXC

AdditionalUrl == <<"K", "P", "2", "A", "_", "U", "R", "L">>

\* Entry::attributes(): keys() in order, with value(key)
EntryAttributes(e) ==
    CASE e = "e3" -> << [key |-> <<"T", "i", "t", "l", "e">>, value |-> <<"t">>],
                        [key |-> AdditionalUrl \o <<"_", "1">>, value |-> UrlXC] >>
      [] OTHER    -> << [key |-> <<"T", "i", "t", "l", "e">>, value |-> <<"t">>] >>

\* handleURL for every URL text of an entry, every page and every submit URL of the
\* model, computed once
HandledUrls ==
    [entryUrl \in {UrlXC, HostXC, UrlAXC}, url \in RequestUrls \cup SearchUrls,
     submitUrl \in SubmitUrls \cup RememberSubmitUrls, matchUrlScheme \in BOOLEAN |->
        handleURL(entryUrl, url, submitUrl, matchUrlScheme)] @@ <<>>

EntryTitle(e) ==
    CASE e = "e1" -> <<"b">>
      [] e = "e2" -> <<"a">>
      [] e = "e3" -> <<"a">>

EntryUserName(e) ==
    CASE e = "e1" -> <<"u">>
      [] e = "e2" -> <<"v">>
      [] e = "e3" -> <<"u">>

\* Group::groupsRecursive(true) of the unlocked database of a tab: per group its
\* isRecycled(), resolveSearchingEnabled() and entries()
DbGroups(w) ==
    CASE w = "w1" -> << [recycled |-> FALSE, searching |-> TRUE, entries |-> <<"e1", "e2">>] >>
      [] w = "w2" -> << [recycled |-> FALSE, searching |-> TRUE, entries |-> <<"e3">>] >>

EntryIsRecycled(e) == FALSE

\* the client ids and keys of the model; "" is the empty QString customData()->value()
\* returns for a key that is not stored
ClientIds == {"c1"}

NoKey == ""

StoredKeys == [w \in DbWidgets |-> [id \in ClientIds |-> "k1"]]

\* DatabaseWidget::database(): a locked tab holds an empty database
DatabaseOf(w, lockedTabs) ==
    IF lockedTabs[w] THEN [groups |-> <<>>, keys |-> [id \in ClientIds |-> NoKey]]
    ELSE [groups |-> DbGroups(w), keys |-> associations[w]]

-----------------------------------------------------------------------------
(* BrowserService::searchEntries *)

\* entries.append(entry) when the condition holds
AppendIf(cond, entries, e) == IF cond THEN Append(entries, e) ELSE entries

\* the loop over entry->attributes()->keys() of one entry
RECURSIVE ScanAttributes(_, _, _, _, _, _, _)
ScanAttributes(attrs, i, e, entries, url, submitUrl, matchUrlScheme) ==
    IF i > Len(attrs) THEN entries
    ELSE ScanAttributes(attrs, i + 1, e,
                        AppendIf(/\ StartsWith(attrs[i].key, AdditionalUrl)
                                 /\ HandledUrls[attrs[i].value, url, submitUrl, matchUrlScheme]
                                 /\ \A k \in 1..Len(entries) : entries[k] # e,
                                 entries, e),
                        url, submitUrl, matchUrlScheme)

\* the loop over group->entries() of one group
RECURSIVE ScanEntries(_, _, _, _, _, _)
ScanEntries(es, i, entries, url, submitUrl, matchUrlScheme) ==
    IF i > Len(es) THEN entries
    ELSE IF EntryIsRecycled(es[i])
         THEN ScanEntries(es, i + 1, entries, url, submitUrl, matchUrlScheme)
    ELSE ScanEntries(es, i + 1,
                     AppendIf(HandledUrls[EntryUrl(es[i]), url, submitUrl, matchUrlScheme],
                              ScanAttributes(EntryAttributes(es[i]), 1, es[i], entries,
                                             url, submitUrl, matchUrlScheme),
                              es[i]),
                     url, submitUrl, matchUrlScheme)

\* the loop over rootGroup->groupsRecursive(true)
RECURSIVE ScanGroups(_, _, _, _, _, _)
ScanGroups(groups, g, entries, url, submitUrl, matchUrlScheme) ==
    IF g > Len(groups) THEN entries
    ELSE IF groups[g].recycled \/ ~groups[g].searching
         THEN ScanGroups(groups, g + 1, entries, url, submitUrl, matchUrlScheme)
    ELSE ScanGroups(groups, g + 1,
                    ScanEntries(groups[g].entries, 1, entries, url, submitUrl, matchUrlScheme),
                    url, submitUrl, matchUrlScheme)

\* searchEntries(db, url, submitUrl)
searchEntriesDb(db, url, submitUrl, matchUrlScheme) ==
    ScanGroups(db.groups, 1, <<>>, url, submitUrl, matchUrlScheme)

\* the databaseConnected lambda without the test !key.isEmpty() of line 592
databaseConnected_EmptyKeyMatches(db, keyList) ==
    \E i \in 1..Len(keyList) :
        keyList[i][2] = (IF keyList[i][1] \in DOMAIN db.keys THEN db.keys[keyList[i][1]] ELSE NoKey)

\* the databaseConnected lambda of searchEntries(url, submitUrl, keyList)
databaseConnected(db, keyList) ==
    \E i \in 1..Len(keyList) :
        LET key == IF keyList[i][1] \in DOMAIN db.keys THEN db.keys[keyList[i][1]] ELSE NoKey
        IN key # NoKey /\ keyList[i][2] = key

\* the databases searchEntries searches, in order
RECURSIVE ConnectedDatabases(_, _, _, _)
ConnectedDatabases(tabs, i, keyList, lockedTabs) ==
    IF i > Len(tabs) THEN <<>>
    ELSE LET db == DatabaseOf(tabs[i], lockedTabs) IN
         (IF databaseConnected(db, keyList) THEN <<db>> ELSE <<>>)
            \o ConnectedDatabases(tabs, i + 1, keyList, lockedTabs)

DatabasesToSearch(keyList, searchInAllDatabases, current, lockedTabs) ==
    IF searchInAllDatabases THEN ConnectedDatabases(OpenDatabases, 1, keyList, lockedTabs)
    ELSE ConnectedDatabases(<<current>>, 1, keyList, lockedTabs)

\* one pass of the for loop over the databases
RECURSIVE ScanDatabases(_, _, _, _, _)
ScanDatabases(dbs, i, url, submitUrl, matchUrlScheme) ==
    IF i > Len(dbs) THEN <<>>
    ELSE searchEntriesDb(dbs[i], url, submitUrl, matchUrlScheme)
            \o ScanDatabases(dbs, i + 1, url, submitUrl, matchUrlScheme)

\* the do-while loop: hostname is relaxed, the scan is given url and submitUrl
RECURSIVE SearchLoop(_, _, _, _, _, _)
SearchLoop(dbs, hostname, entries, url, submitUrl, matchUrlScheme) ==
    IF entries = <<>> /\ removeFirstDomain(hostname)[2]
    THEN SearchLoop(dbs, removeFirstDomain(hostname)[1],
                    entries \o ScanDatabases(dbs, 1, url, submitUrl, matchUrlScheme),
                    url, submitUrl, matchUrlScheme)
    ELSE entries

\* getDatabase() is null and databaseConnected dereferences it
searchDereferencesNull(keyList, searchInAllDatabases, current) ==
    ~searchInAllDatabases /\ current = NoWidget /\ keyList # <<>>

\* searchEntries(url, submitUrl, keyList)
searchEntries(url, submitUrl, keyList, searchInAllDatabases, matchUrlScheme, current, lockedTabs) ==
    IF ~searchInAllDatabases /\ current = NoWidget THEN <<>>
    ELSE SearchLoop(DatabasesToSearch(keyList, searchInAllDatabases, current, lockedTabs),
                    QUrl(url).host,
                    ScanDatabases(DatabasesToSearch(keyList, searchInAllDatabases, current, lockedTabs),
                                  1, url, submitUrl, matchUrlScheme),
                    url, submitUrl, matchUrlScheme)

-----------------------------------------------------------------------------
(* BrowserService::sortPriority and sortEntries *)

Localhost == <<"l", "o", "c", "a", "l", "h", "o", "s", "t">>

\* QUrl(text) with setScheme("https") when the text has no scheme (lines 900-902, 704-706)
WithHttps(qurl) == IF qurl.scheme = <<>> THEN SetScheme(qurl, HttpsScheme) ELSE qurl

SortUrl(text) == WithHttps(QUrl(text))

\* lines 911-953 of sortPriority without the test for the exact match of lines 914-916
PriorityOf_NoExactRule(urlHost, entryURL, baseEntryURL, host, submitUrl, baseSubmitUrl) ==
    IF ~ContainsChar(urlHost, ".") /\ urlHost # Localhost THEN 0
    ELSE IF StartsWith(submitUrl, entryURL) /\ entryURL # host
            /\ baseSubmitUrl # entryURL THEN 90
    ELSE IF StartsWith(submitUrl, baseEntryURL) /\ entryURL # host
            /\ baseSubmitUrl # baseEntryURL THEN 80
    ELSE IF entryURL = host THEN 70
    ELSE IF entryURL = baseSubmitUrl THEN 60
    ELSE IF StartsWith(entryURL, submitUrl) THEN 50
    ELSE IF StartsWith(entryURL, baseSubmitUrl) /\ baseSubmitUrl # host THEN 40
    ELSE IF StartsWith(submitUrl, entryURL) THEN 30
    ELSE IF StartsWith(submitUrl, baseEntryURL) THEN 20
    ELSE IF StartsWith(entryURL, host) THEN 10
    ELSE IF StartsWith(host, entryURL) THEN 5
    ELSE 0

\* lines 911-953 of sortPriority with the directions of the rules for 50, 40, 30 and 20
\* exchanged
PriorityOf_SubmitPrefixFirst(urlHost, entryURL, baseEntryURL, host, submitUrl, baseSubmitUrl) ==
    IF ~ContainsChar(urlHost, ".") /\ urlHost # Localhost THEN 0
    ELSE IF submitUrl = entryURL THEN 100
    ELSE IF StartsWith(submitUrl, entryURL) /\ entryURL # host
            /\ baseSubmitUrl # entryURL THEN 90
    ELSE IF StartsWith(submitUrl, baseEntryURL) /\ entryURL # host
            /\ baseSubmitUrl # baseEntryURL THEN 80
    ELSE IF entryURL = host THEN 70
    ELSE IF entryURL = baseSubmitUrl THEN 60
    ELSE IF StartsWith(submitUrl, entryURL) THEN 50
    ELSE IF StartsWith(submitUrl, baseEntryURL) /\ baseEntryURL # host THEN 40
    ELSE IF StartsWith(entryURL, submitUrl) THEN 30
    ELSE IF StartsWith(entryURL, baseSubmitUrl) THEN 20
    ELSE IF StartsWith(entryURL, host) THEN 10
    ELSE IF StartsWith(host, entryURL) THEN 5
    ELSE 0

\* lines 911-953 of sortPriority, for the entry URL in its two text forms
PriorityOf(urlHost, entryURL, baseEntryURL, host, submitUrl, baseSubmitUrl) ==
    IF ~ContainsChar(urlHost, ".") /\ urlHost # Localhost THEN 0
    ELSE IF submitUrl = entryURL THEN 100
    ELSE IF StartsWith(submitUrl, entryURL) /\ entryURL # host
            /\ baseSubmitUrl # entryURL THEN 90
    ELSE IF StartsWith(submitUrl, baseEntryURL) /\ entryURL # host
            /\ baseSubmitUrl # baseEntryURL THEN 80
    ELSE IF entryURL = host THEN 70
    ELSE IF entryURL = baseSubmitUrl THEN 60
    ELSE IF StartsWith(entryURL, submitUrl) THEN 50
    ELSE IF StartsWith(entryURL, baseSubmitUrl) /\ baseSubmitUrl # host THEN 40
    ELSE IF StartsWith(submitUrl, entryURL) THEN 30
    ELSE IF StartsWith(submitUrl, baseEntryURL) THEN 20
    ELSE IF StartsWith(entryURL, host) THEN 10
    ELSE IF StartsWith(host, entryURL) THEN 5
    ELSE 0

\* lines 903-906: a URL without a path gets the path "/"
WithRootPath(qurl) == IF qurl.path = <<>> THEN [qurl EXCEPT !.path = <<"/">>] ELSE qurl

PriorityOfUrl(url, host, submitUrl, baseSubmitUrl) ==
    PriorityOf(url.host, UrlToString(url, FALSE), UrlToString(url, TRUE),
               host, submitUrl, baseSubmitUrl)

sortPriority(entryUrlText, host, submitUrl, baseSubmitUrl) ==
    PriorityOfUrl(WithRootPath(SortUrl(entryUrlText)), host, submitUrl, baseSubmitUrl)

\* the collation order of the characters that occur in titles and user names
Alphabet == <<"a", "b", "c", "t", "u", "v">>

CharRank(c) == CHOOSE i \in 1..Len(Alphabet) : Alphabet[i] = c

\* QString::localeAwareCompare(a, b): -1, 0 or 1
RECURSIVE localeAwareCompare(_, _)
localeAwareCompare(a, b) ==
    IF a = <<>> /\ b = <<>> THEN 0
    ELSE IF a = <<>> THEN -1
    ELSE IF b = <<>> THEN 1
    ELSE IF CharRank(a[1]) < CharRank(b[1]) THEN -1
    ELSE IF CharRank(a[1]) > CharRank(b[1]) THEN 1
    ELSE localeAwareCompare(Tail(a), Tail(b))

EntryField(e, sortByTitle) == IF sortByTitle THEN EntryTitle(e) ELSE EntryUserName(e)

\* the comparison lambda without the comparison of the user names
SortsBefore_NoTieBreak(left, right, sortByTitle) ==
    localeAwareCompare(EntryField(left, sortByTitle), EntryField(right, sortByTitle)) < 0

\* the comparison lambda handed to std::sort
SortsBefore(left, right, sortByTitle) ==
    \/ localeAwareCompare(EntryField(left, sortByTitle), EntryField(right, sortByTitle)) < 0
    \/ /\ localeAwareCompare(EntryField(left, sortByTitle), EntryField(right, sortByTitle)) = 0
       /\ localeAwareCompare(EntryUserName(left), EntryUserName(right)) < 0

\* sorted is in order; e goes behind every entry that does not sort after it
RECURSIVE InsertSorted(_, _, _)
InsertSorted(sorted, e, sortByTitle) ==
    IF sorted = <<>> THEN <<e>>
    ELSE IF SortsBefore(e, sorted[1], sortByTitle) THEN <<e>> \o sorted
    ELSE <<sorted[1]>> \o InsertSorted(Tail(sorted), e, sortByTitle)

RECURSIVE SortBucket(_, _)
SortBucket(es, sortByTitle) ==
    IF es = <<>> THEN <<>>
    ELSE InsertSorted(SortBucket(SubSeq(es, 1, Len(es) - 1), sortByTitle), es[Len(es)], sortByTitle)

\* the submit URLs of the requests whose results are sorted: none, the URL of e1, the
\* URL of e3, and one of another site
SortSubmitUrls ==
    { <<>>, UrlXC \o <<"/">>, UrlAXC \o <<"/">>, HttpsScheme \o SchemeSep \o <<"y", ".", "c">> }

\* sortPriority of every entry for every request of the model, computed once
Priorities ==
    [e \in Entries, u \in RequestUrls, s \in SubmitUrls \cup RememberSubmitUrls \cup SortSubmitUrls |->
        sortPriority(EntryUrl(e), QUrl(u).host,
                     UrlToString(SortUrl(s), FALSE), UrlToString(SortUrl(s), TRUE))] @@ <<>>

\* lines 715-718: the QMultiMap of the entries, keyed by their priority
InsertPriorities(pwEntries, url, entryUrl) ==
    [k \in 1..Len(pwEntries) |-> Priorities[pwEntries[k], url, entryUrl]]

\* QMultiMap::values(i): the entries inserted with priority i, the last inserted first
RECURSIVE BucketValues(_, _, _, _)
BucketValues(pwEntries, priorities, k, i) ==
    IF k = 0 THEN <<>>
    ELSE (IF priorities[k] = i THEN <<pwEntries[k]>> ELSE <<>>)
            \o BucketValues(pwEntries, priorities, k - 1, i)

\* the loop of lines 721-740 ending above 0:  for (int i = 100; i > 0; i -= 5)
RECURSIVE SortLoop_StopsAboveZero(_, _, _, _, _)
SortLoop_StopsAboveZero(pwEntries, priorities, i, sortByTitle, bestMatchOnly) ==
    IF i <= 0 THEN <<>>
    ELSE IF BucketValues(pwEntries, priorities, Len(pwEntries), i) = <<>>
         THEN SortLoop_StopsAboveZero(pwEntries, priorities, i - 5, sortByTitle, bestMatchOnly)
    ELSE IF bestMatchOnly /\ pwEntries # <<>>
         THEN SortBucket(BucketValues(pwEntries, priorities, Len(pwEntries), i), sortByTitle)
    ELSE SortBucket(BucketValues(pwEntries, priorities, Len(pwEntries), i), sortByTitle)
            \o SortLoop_StopsAboveZero(pwEntries, priorities, i - 5, sortByTitle, bestMatchOnly)

\* the loop without the break of lines 735-738
RECURSIVE SortLoop_NoEarlyOut(_, _, _, _, _)
SortLoop_NoEarlyOut(pwEntries, priorities, i, sortByTitle, bestMatchOnly) ==
    IF i < 0 THEN <<>>
    ELSE SortBucket(BucketValues(pwEntries, priorities, Len(pwEntries), i), sortByTitle)
            \o SortLoop_NoEarlyOut(pwEntries, priorities, i - 5, sortByTitle, bestMatchOnly)

\* the loop  for (int i = 100; i >= 0; i -= 5)
RECURSIVE SortLoop(_, _, _, _, _)
SortLoop(pwEntries, priorities, i, sortByTitle, bestMatchOnly) ==
    IF i < 0 THEN <<>>
    ELSE LET bucket == BucketValues(pwEntries, priorities, Len(pwEntries), i) IN
         IF bucket = <<>>
         THEN SortLoop(pwEntries, priorities, i - 5, sortByTitle, bestMatchOnly)
         ELSE IF bestMatchOnly /\ pwEntries # <<>> THEN SortBucket(bucket, sortByTitle)
         ELSE SortBucket(bucket, sortByTitle)
                \o SortLoop(pwEntries, priorities, i - 5, sortByTitle, bestMatchOnly)

\* sortEntries(pwEntries, host, entryUrl) for the request to the page url
sortEntries(pwEntries, url, entryUrl, sortByTitle, bestMatchOnly) ==
    SortLoop(pwEntries, InsertPriorities(pwEntries, url, entryUrl), 100, sortByTitle, bestMatchOnly)

-----------------------------------------------------------------------------
(* browserSettings() and the per-entry options *)

AllSettings == {"alwaysAllowAccess", "httpAuthPermission", "allowExpiredCredentials",
                "searchInAllDatabases", "matchUrlScheme", "sortByTitle", "bestMatchOnly"}

\* the options the state machine is explored under; the others keep DefaultSettings
VariedSettings == {"alwaysAllowAccess", "httpAuthPermission"}

DefaultSettings == {"matchUrlScheme", "sortByTitle"}

Setting(name) == name \in settings

\* OPTION_HIDE_ENTRY, OPTION_ONLY_HTTP_AUTH in the entry's custom data; Entry::isExpired()
EntryOptions == {"BrowserHideEntry", "BrowserOnlyHttpAuth", "expired"}

HasOption(e, option) == e \in entryFlags[option]

\* isDatabaseOpened()
isDatabaseOpened(current, lockedTabs) ==
    IF current # NoWidget THEN ~lockedTabs[current] ELSE FALSE

-----------------------------------------------------------------------------
(* findMatchingEntries: the authorization loop over the search result *)

\* a request that lines 376-379 route to confirmation whatever the stored rule says
ConfirmsAll(httpAuth) == ~Setting("httpAuthPermission") /\ httpAuth

EntryAccess(e, host, submitHost, realm) ==
    checkAccess(entryConfig[e], HasOption(e, "expired"), Setting("allowExpiredCredentials"),
                host, submitHost, realm)

\* the loop body with a Denied entry sent to the dialog instead of being dropped
ClassifyEntry_DeniedConfirm(e, host, submitHost, realm, httpAuth) ==
    IF HasOption(e, "BrowserHideEntry") THEN [to |-> "skip", checked |-> FALSE]
    ELSE IF ~httpAuth /\ HasOption(e, "BrowserOnlyHttpAuth") THEN [to |-> "skip", checked |-> FALSE]
    ELSE IF ConfirmsAll(httpAuth) THEN [to |-> "confirm", checked |-> FALSE]
    ELSE IF EntryAccess(e, host, submitHost, realm) = "Allowed"
         THEN [to |-> "include", checked |-> TRUE]
    ELSE IF EntryAccess(e, host, submitHost, realm) = "Unknown" /\ Setting("alwaysAllowAccess")
         THEN [to |-> "include", checked |-> TRUE]
    ELSE [to |-> "confirm", checked |-> TRUE]

\* the loop body with an Unknown entry included whatever alwaysAllowAccess says
ClassifyEntry_UnknownInclude(e, host, submitHost, realm, httpAuth) ==
    IF HasOption(e, "BrowserHideEntry") THEN [to |-> "skip", checked |-> FALSE]
    ELSE IF ~httpAuth /\ HasOption(e, "BrowserOnlyHttpAuth") THEN [to |-> "skip", checked |-> FALSE]
    ELSE IF ConfirmsAll(httpAuth) THEN [to |-> "confirm", checked |-> FALSE]
    ELSE IF EntryAccess(e, host, submitHost, realm) = "Denied"
         THEN [to |-> "skip", checked |-> TRUE]
    ELSE [to |-> "include", checked |-> TRUE]

\* the loop body without lines 376-379: an HTTP Basic Auth request is checked like any other
ClassifyEntry_PolicyForHttpAuth(e, host, submitHost, realm, httpAuth) ==
    IF HasOption(e, "BrowserHideEntry") THEN [to |-> "skip", checked |-> FALSE]
    ELSE IF ~httpAuth /\ HasOption(e, "BrowserOnlyHttpAuth") THEN [to |-> "skip", checked |-> FALSE]
    ELSE IF EntryAccess(e, host, submitHost, realm) = "Denied"
         THEN [to |-> "skip", checked |-> TRUE]
    ELSE IF EntryAccess(e, host, submitHost, realm) = "Unknown" /\ ~Setting("alwaysAllowAccess")
         THEN [to |-> "confirm", checked |-> TRUE]
    ELSE [to |-> "include", checked |-> TRUE]

\* the loop body without lines 365-368: the hide option is not looked at
ClassifyEntry_NoHideCheck(e, host, submitHost, realm, httpAuth) ==
    IF ~httpAuth /\ HasOption(e, "BrowserOnlyHttpAuth") THEN [to |-> "skip", checked |-> FALSE]
    ELSE IF ConfirmsAll(httpAuth) THEN [to |-> "confirm", checked |-> FALSE]
    ELSE IF EntryAccess(e, host, submitHost, realm) = "Denied"
         THEN [to |-> "skip", checked |-> TRUE]
    ELSE IF EntryAccess(e, host, submitHost, realm) = "Unknown" /\ ~Setting("alwaysAllowAccess")
         THEN [to |-> "confirm", checked |-> TRUE]
    ELSE [to |-> "include", checked |-> TRUE]

\* one pass of the loop body for entry e: where the entry goes ("skip", "confirm" or
\* "include") and whether checkAccess was called for it
ClassifyEntry(e, host, submitHost, realm, httpAuth) ==
    IF HasOption(e, "BrowserHideEntry") THEN [to |-> "skip", checked |-> FALSE]
    ELSE IF ~httpAuth /\ HasOption(e, "BrowserOnlyHttpAuth") THEN [to |-> "skip", checked |-> FALSE]
    ELSE IF ConfirmsAll(httpAuth) THEN [to |-> "confirm", checked |-> FALSE]
    ELSE LET access == EntryAccess(e, host, submitHost, realm) IN
         CASE access = "Denied"  -> [to |-> "skip", checked |-> TRUE]
           [] access = "Unknown" -> IF Setting("alwaysAllowAccess")
                                    THEN [to |-> "include", checked |-> TRUE]
                                    ELSE [to |-> "confirm", checked |-> TRUE]
           [] access = "Allowed" -> [to |-> "include", checked |-> TRUE]

\* one pass of the loop body: entry e joins the list its classification c names
AddClassified(lists, e, c) ==
    [pwEntries |-> AppendIf(c.to = "include", lists.pwEntries, e),
     pwEntriesToConfirm |-> AppendIf(c.to = "confirm", lists.pwEntriesToConfirm, e),
     checked |-> IF c.checked THEN lists.checked \cup {e} ELSE lists.checked]

\* the loop of lines 364-397: pwEntries, pwEntriesToConfirm and the entries checkAccess saw
RECURSIVE CheckEntries(_, _, _, _, _)
CheckEntries(found, host, submitHost, realm, httpAuth) ==
    IF found = <<>> THEN [pwEntries |-> <<>>, pwEntriesToConfirm |-> <<>>, checked |-> {}]
    ELSE AddClassified(CheckEntries(SubSeq(found, 1, Len(found) - 1), host, submitHost, realm, httpAuth),
                       found[Len(found)],
                       ClassifyEntry(found[Len(found)], host, submitHost, realm, httpAuth))

\* lines 401-423 without the test of lines 410-412
FinishMatching_NoOpenedCheck(pwEntries, selectedEntriesToConfirm, url, submitUrl, current, lockedTabs) ==
    IF pwEntries \o selectedEntriesToConfirm = <<>> THEN <<>>
    ELSE sortEntries(pwEntries \o selectedEntriesToConfirm, url, submitUrl,
                     Setting("sortByTitle"), Setting("bestMatchOnly"))

\* lines 401-423: the entries findMatchingEntries returns once confirmEntries has returned
FinishMatching(pwEntries, selectedEntriesToConfirm, url, submitUrl, current, lockedTabs) ==
    LET all == pwEntries \o selectedEntriesToConfirm IN
    IF all = <<>> THEN <<>>
    ELSE IF ~isDatabaseOpened(current, lockedTabs) THEN <<>>
    ELSE sortEntries(all, url, submitUrl, Setting("sortByTitle"), Setting("bestMatchOnly"))

-----------------------------------------------------------------------------
(* BrowserService::confirmEntries *)

\* line 751 with the mutual exclusion left out
confirmReturnsEarly_NoFlagCheck(pwEntriesToConfirm, dialogActive) ==
    pwEntriesToConfirm = <<>>

\* line 751: no dialog is opened for an empty list or while another dialog is active
confirmReturnsEarly(pwEntriesToConfirm, dialogActive) ==
    pwEntriesToConfirm = <<>> \/ dialogActive

\* the disableAccess handler, lines 762-774: the rule saved for the clicked entry
DisableAccessRule(stored, host, submitHost, realm) ==
    LET c1 == ConfigDeny(ConfigLoad(stored), host)
        c2 == IF submitHost # <<>> /\ host # submitHost THEN ConfigDeny(c1, submitHost) ELSE c1
    IN ConfigSave(IF realm # "" THEN ConfigSetRealm(c2, realm) ELSE c2)

\* lines 784-793 without lines 787-789: the submit host is not allowed
RememberRule_HostOnly(stored, host, submitHost, realm) ==
    ConfigSave(IF realm # "" THEN ConfigSetRealm(ConfigAllow(ConfigLoad(stored), host), realm)
               ELSE ConfigAllow(ConfigLoad(stored), host))

\* lines 784-793: the rule saved for a selected entry when "remember" is set
RememberRule(stored, host, submitHost, realm) ==
    LET c1 == ConfigAllow(ConfigLoad(stored), host)
        c2 == IF submitHost # <<>> /\ host # submitHost THEN ConfigAllow(c1, submitHost) ELSE c1
    IN ConfigSave(IF realm # "" THEN ConfigSetRealm(c2, realm) ELSE c2)

\* the loop of lines 781-796 without the test of line 783: the rule is saved whether
\* "remember" is set or not
RECURSIVE AllowSelected_AlwaysRemember(_, _, _, _, _)
AllowSelected_AlwaysRemember(d, rows, i, remember, config) ==
    IF i > Len(rows) THEN [allowedEntries |-> <<>>, config |-> config]
    ELSE LET entry == d.pwEntriesToConfirm[rows[i]]
             saved == [config EXCEPT ![entry] = RememberRule(@, d.host, d.submitHost, d.req.realm)]
             rest  == AllowSelected_AlwaysRemember(d, rows, i + 1, remember, saved)
         IN [allowedEntries |-> <<entry>> \o rest.allowedEntries, config |-> rest.config]

\* the loop of lines 781-796 over the selected rows: allowedEntries and the saved rules
RECURSIVE AllowSelected(_, _, _, _, _)
AllowSelected(d, rows, i, remember, config) ==
    IF i > Len(rows) THEN [allowedEntries |-> <<>>, config |-> config]
    ELSE LET entry == d.pwEntriesToConfirm[rows[i]]
             saved == IF remember
                      THEN [config EXCEPT ![entry] = RememberRule(@, d.host, d.submitHost, d.req.realm)]
                      ELSE config
             rest  == AllowSelected(d, rows, i + 1, remember, saved)
         IN [allowedEntries |-> <<entry>> \o rest.allowedEntries, config |-> rest.config]

\* lines 778-811 with m_dialogActive reset only on the accepted path
confirmEntriesReturn_ResetOnAccept(d, accepted, rows, remember, config) ==
    LET done == IF accepted THEN AllowSelected(d, rows, 1, remember, config)
                ELSE [allowedEntries |-> <<>>, config |-> config]
    IN [allowedEntries |-> done.allowedEntries, config |-> done.config, dialogActive |-> ~accepted]

\* lines 778-811: what confirmEntries does once exec() of dialog d has returned
confirmEntriesReturn(d, accepted, rows, remember, config) ==
    LET done == IF accepted THEN AllowSelected(d, rows, 1, remember, config)
                ELSE [allowedEntries |-> <<>>, config |-> config]
    IN [allowedEntries |-> done.allowedEntries, config |-> done.config, dialogActive |-> FALSE]

\* lines 759-760 with only the databaseLocked() connection made
RejectsDialog_LockOnly(d, event, widget) ==
    event = "databaseLocked" /\ d.widget = widget

\* lines 759-760: the signals connected to the dialog's reject() slot
RejectsDialog(d, event, widget) ==
    \/ event = "databaseLocked" /\ d.widget = widget
    \/ event = "activeDatabaseChanged"

-----------------------------------------------------------------------------
(* The state machine: client requests, the dialog, and the database events  *)
(* the Qt event loop delivers while BrowserAccessControlDialog::exec() runs *)

Requests == [url : RequestUrls, submitUrl : SubmitUrls, realm : Realms,
             httpAuth : BOOLEAN, keyList : KeyLists]

AllowedHosts(stored) == ConfigLoad(stored).allowed

\* the ascending sequence of a set of rows
RECURSIVE SortedRows(_)
SortedRows(rows) ==
    IF rows = {} THEN <<>>
    ELSE LET least == CHOOSE r \in rows : \A q \in rows : r <= q
         IN <<least>> \o SortedRows(rows \ {least})

Range(seq) == {seq[i] : i \in 1..Len(seq)}

\* a findMatchingEntries call at line 400, where it calls confirmEntries: its lists,
\* the verdict checkAccess gave for every entry it was asked about, whether a dialog
\* was already active, and the rules the entries hold at that moment
CallFrame(req, host, submitHost, found, lists) ==
    [req |-> req, host |-> host, submitHost |-> submitHost, found |-> found,
     pwEntries |-> lists.pwEntries, pwEntriesToConfirm |-> lists.pwEntriesToConfirm,
     checked |-> lists.checked,
     verdicts |-> [e \in Entries |-> IF e \in lists.checked
                                      THEN EntryAccess(e, host, submitHost, req.realm)
                                      ELSE "NotChecked"],
     busy |-> m_dialogActive, widget |-> m_currentDatabaseWidget, rules |-> entryConfig,
     outcome |-> "open"]

\* lines 364-397 for the entries the search found
CheckFound(req, host, submitHost, found) ==
    CallFrame(req, host, submitHost, found,
              CheckEntries(found, host, submitHost, req.realm, req.httpAuth))

\* findMatchingEntries up to the call of confirmEntries (lines 356-400)
Matching(req) ==
    CheckFound(req, QUrl(req.url).host, QUrl(req.submitUrl).host,
               searchEntries(req.url, req.submitUrl, req.keyList,
                             Setting("searchInAllDatabases"), Setting("matchUrlScheme"),
                             m_currentDatabaseWidget, locked))

\* no findMatchingEntries call was finished by the last step
NoResponse ==
    [req |-> [url |-> <<>>, submitUrl |-> <<>>, realm |-> "", httpAuth |-> FALSE, keyList |-> <<>>],
     found |-> <<>>, pwEntries |-> <<>>, offered |-> <<>>, checked |-> {},
     verdicts |-> [e \in Entries |-> "NotChecked"],
     busy |-> FALSE, shown |-> FALSE, outcome |-> "NoResponse", selected |-> <<>>,
     remember |-> FALSE, confirmed |-> <<>>, dialogActive |-> FALSE,
     rulesBefore |-> [e \in Entries |-> NoConfig], result |-> <<>>]

\* what findMatchingEntries hands back for the call d once confirmEntries has returned
Response(d, shown, outcome, rows, remember, confirmed, active, current, lockedTabs) ==
    [req |-> d.req, found |-> d.found, pwEntries |-> d.pwEntries, offered |-> d.pwEntriesToConfirm,
     checked |-> d.checked, verdicts |-> d.verdicts,
     busy |-> d.busy, shown |-> shown, outcome |-> outcome, selected |-> rows,
     remember |-> remember, confirmed |-> confirmed, dialogActive |-> active,
     rulesBefore |-> d.rules,
     result |-> FinishMatching(d.pwEntries, confirmed, d.req.url, d.req.submitUrl, current, lockedTabs)]

\* exec() returns in the dialogs on top of the stack that have been rejected; each
\* confirmEntries call then runs lines 778-811 and its findMatchingEntries finishes
RECURSIVE Unwind(_, _, _, _, _, _)
Unwind(ds, resp, active, config, current, lockedTabs) ==
    IF ds = <<>> \/ ds[Len(ds)].outcome = "open"
    THEN [dialogs |-> ds, response |-> resp, dialogActive |-> active, config |-> config]
    ELSE Unwind(SubSeq(ds, 1, Len(ds) - 1),
                Response(ds[Len(ds)], TRUE, ds[Len(ds)].outcome, <<>>, FALSE, <<>>, FALSE,
                         current, lockedTabs),
                confirmEntriesReturn(ds[Len(ds)], FALSE, <<>>, FALSE, config).dialogActive,
                confirmEntriesReturn(ds[Len(ds)], FALSE, <<>>, FALSE, config).config,
                current, lockedTabs)

\* the dialogs an event rejects are marked with the event
Reject(ds, event, widget) ==
    [i \in 1..Len(ds) |->
        IF ds[i].outcome = "open" /\ RejectsDialog(ds[i], event, widget)
        THEN [ds[i] EXCEPT !.outcome = event] ELSE ds[i]]

Running == ~crashed

TopDialog == dialogs[Len(dialogs)]

\* a get-logins message: findMatchingEntries, which returns at once or opens the dialog
FindMatchingEntries(req) ==
    /\ Running
    /\ Len(dialogs) < MaxDepth
    /\ ~searchDereferencesNull(req.keyList, Setting("searchInAllDatabases"), m_currentDatabaseWidget)
    /\ \E d \in {Matching(req)} :
       IF confirmReturnsEarly(d.pwEntriesToConfirm, m_dialogActive)
       THEN /\ response' = Response(d, FALSE, "returned", <<>>, FALSE, <<>>, m_dialogActive,
                                    m_currentDatabaseWidget, locked)
            /\ UNCHANGED <<m_dialogActive, dialogs>>
       ELSE /\ m_dialogActive' = TRUE
            /\ dialogs' = Append(dialogs, d)
            /\ response' = NoResponse
    /\ UNCHANGED <<m_currentDatabaseWidget, locked, settings, entryFlags, entryConfig,
                   crashed, associations, acc>>

\* findMatchingEntries without a current database: databaseConnected reads through the
\* null pointer getDatabase() returned (lines 609-610, 591)
FindMatchingEntriesNullDatabase(req) ==
    /\ Running
    /\ searchDereferencesNull(req.keyList, Setting("searchInAllDatabases"), m_currentDatabaseWidget)
    /\ crashed' = TRUE
    /\ response' = NoResponse
    /\ UNCHANGED <<m_dialogActive, m_currentDatabaseWidget, locked, settings, entryFlags,
                   entryConfig, dialogs, associations, acc>>

\* the user clicks the deny button of a row: the disableAccess handler runs
DisableAccess(row) ==
    /\ Running
    /\ dialogs # <<>>
    /\ TopDialog.outcome = "open"
    /\ row \in 1..Len(TopDialog.pwEntriesToConfirm)
    /\ entryConfig' = [entryConfig EXCEPT ![TopDialog.pwEntriesToConfirm[row]] =
                          DisableAccessRule(@, TopDialog.host, TopDialog.submitHost,
                                            TopDialog.req.realm)]
    /\ response' = NoResponse
    /\ UNCHANGED <<m_dialogActive, m_currentDatabaseWidget, locked, settings, entryFlags,
                   dialogs, crashed, associations, acc>>

\* the user closes the dialog: accepted with the selected rows, or cancelled
CloseDialog(accepted, remember) ==
    /\ Running
    /\ dialogs # <<>>
    /\ TopDialog.outcome = "open"
    /\ accepted \/ ~remember
    /\ \E rows \in (IF accepted THEN SUBSET (1..Len(TopDialog.pwEntriesToConfirm)) ELSE {{}}) :
       \E ret \in {confirmEntriesReturn(TopDialog, accepted, SortedRows(rows), remember,
                                         entryConfig)} :
       \E rest \in {Unwind(SubSeq(dialogs, 1, Len(dialogs) - 1),
                           Response(TopDialog, TRUE, IF accepted THEN "accepted" ELSE "cancelled",
                                    SortedRows(rows), remember, ret.allowedEntries,
                                    ret.dialogActive, m_currentDatabaseWidget, locked),
                           ret.dialogActive, ret.config, m_currentDatabaseWidget, locked)} :
          /\ dialogs' = rest.dialogs
          /\ response' = rest.response
          /\ m_dialogActive' = rest.dialogActive
          /\ entryConfig' = rest.config
    /\ UNCHANGED <<m_currentDatabaseWidget, locked, settings, entryFlags, crashed,
                   associations, acc>>

\* a tab locks its database: DatabaseWidget emits databaseLocked()
DatabaseLocked(w) ==
    /\ Running
    /\ ~locked[w]
    /\ locked' = [locked EXCEPT ![w] = TRUE]
    /\ \E rest \in {Unwind(Reject(dialogs, "databaseLocked", w), NoResponse, m_dialogActive,
                           entryConfig, m_currentDatabaseWidget, locked')} :
          /\ dialogs' = rest.dialogs
          /\ response' = rest.response
          /\ m_dialogActive' = rest.dialogActive
          /\ entryConfig' = rest.config
    /\ UNCHANGED <<m_currentDatabaseWidget, settings, entryFlags, crashed, associations, acc>>

\* a tab unlocks its database
DatabaseUnlocked(w) ==
    /\ Running
    /\ locked[w]
    /\ locked' = [locked EXCEPT ![w] = FALSE]
    /\ response' = NoResponse
    /\ UNCHANGED <<m_dialogActive, m_currentDatabaseWidget, settings, entryFlags, entryConfig,
                   dialogs, crashed, associations, acc>>

\* activeDatabaseChanged(dbWidget), lines 1251-1263, and the signal of line 760
ActiveDatabaseChanged(w) ==
    /\ Running
    /\ w # m_currentDatabaseWidget
    /\ m_currentDatabaseWidget' = w
    /\ \E rest \in {Unwind(Reject(dialogs, "activeDatabaseChanged", w), NoResponse, m_dialogActive,
                           entryConfig, w, locked)} :
          /\ dialogs' = rest.dialogs
          /\ response' = rest.response
          /\ m_dialogActive' = rest.dialogActive
          /\ entryConfig' = rest.config
    /\ UNCHANGED <<locked, settings, entryFlags, crashed, associations, acc>>

\* the entries that may carry an option in the databases of the model
Flaggable ==
    [o \in EntryOptions |->
        CASE o = "BrowserHideEntry"    -> {"e2"}
          [] o = "BrowserOnlyHttpAuth" -> {"e1"}
          [] o = "expired"             -> {}]

\* no checkAccess call is recorded
NoCall == [host |-> <<>>, submitHost |-> <<>>, realm |-> "", result |-> "none"]

\* the state after construction (lines 63-73), over the databases the user may have open
Init ==
    /\ m_dialogActive = FALSE
    /\ m_currentDatabaseWidget = NoWidget
    /\ locked = [w \in DbWidgets |-> FALSE]
    /\ \E on \in SUBSET VariedSettings : settings = DefaultSettings \cup on
    /\ entryFlags \in [EntryOptions -> SUBSET Entries]
    /\ \A o \in EntryOptions : entryFlags[o] \subseteq Flaggable[o]
    /\ entryConfig = [e \in Entries |-> NoConfig]
    /\ dialogs = <<>>
    /\ response = NoResponse
    /\ crashed = FALSE
    /\ associations = StoredKeys
    /\ acc = NoCall

Next ==
    \/ \E req \in Requests : FindMatchingEntries(req)
    \/ \E req \in Requests : FindMatchingEntriesNullDatabase(req)
    \/ \E row \in 1..Cardinality(Entries) : DisableAccess(row)
    \/ \E accepted \in BOOLEAN, remember \in BOOLEAN : CloseDialog(accepted, remember)
    \/ \E w \in DbWidgets : DatabaseLocked(w)
    \/ \E w \in DbWidgets : DatabaseUnlocked(w)
    \/ \E w \in DbWidgets \cup {NoWidget} : ActiveDatabaseChanged(w)

Spec == Init /\ [][Next]_vars

-----------------------------------------------------------------------------
(* The same state machine for the requests of a login form that submits to  *)
(* another host and of a realm, with the settings at their defaults and no  *)
(* entry option set: the rules the confirmation dialog stores               *)

RememberTabs == {"w1"}

RememberRequests == [url : RequestUrls, submitUrl : RememberSubmitUrls, realm : RememberRealms,
                     httpAuth : {FALSE}, keyList : KeyLists]

InitRemember ==
    /\ m_dialogActive = FALSE
    /\ m_currentDatabaseWidget = NoWidget
    /\ locked = [w \in DbWidgets |-> FALSE]
    /\ settings = DefaultSettings
    /\ entryFlags = [o \in EntryOptions |-> {}]
    /\ entryConfig = [e \in Entries |-> NoConfig]
    /\ dialogs = <<>>
    /\ response = NoResponse
    /\ crashed = FALSE
    /\ associations = StoredKeys
    /\ acc = NoCall

NextRemember ==
    \/ \E req \in RememberRequests : FindMatchingEntries(req)
    \/ \E req \in RememberRequests : FindMatchingEntriesNullDatabase(req)
    \/ \E row \in 1..Cardinality(Entries) : DisableAccess(row)
    \/ \E accepted \in BOOLEAN, remember \in BOOLEAN : CloseDialog(accepted, remember)
    \/ \E w \in RememberTabs : DatabaseLocked(w)
    \/ \E w \in RememberTabs : DatabaseUnlocked(w)
    \/ \E w \in RememberTabs \cup {NoWidget} : ActiveDatabaseChanged(w)

SpecRemember == InitRemember /\ [][NextRemember]_vars

-----------------------------------------------------------------------------
(* searchEntries(url, submitUrl, keyList) and the read operations, step by  *)
(* step: the databases the client is associated with, the do-while loop of  *)
(* lines 615-622 one round at a time, over every association, key list,     *)
(* lock state and current tab                                               *)

\* the keys a database may hold for the client id c1
SearchKeys == {NoKey, "k1", "k2"}

\* the (client id, key) pairs a request may carry
SearchKeyLists == { <<>>,
                    << <<"c1", "k1">> >>,
                    << <<"c1", "k2">>, <<"c1", "k1">> >>,
                    << <<"c1", NoKey>> >>,
                    << <<"c2", "k1">> >> }

\* getDatabase() returns a null pointer
NullDatabase(current) == current = NoWidget

\* getKey(id)
getKey(id, current, lockedTabs) ==
    IF NullDatabase(current) THEN NoKey ELSE DatabaseOf(current, lockedTabs).keys[id]

\* Group::uuidToHex() of the root group of a tab's database
RootUuid(w) == IF w = "w1" THEN "uuid1" ELSE "uuid2"

\* getDatabaseRootUuid(): empty without a database or without a root group
getDatabaseRootUuid(current, lockedTabs) ==
    IF NullDatabase(current) THEN ""
    ELSE IF DatabaseOf(current, lockedTabs).groups = <<>> THEN ""
    ELSE RootUuid(current)

\* getDatabaseGroups(): the uuid of the root group and the number of groups under it
getDatabaseGroups(current, lockedTabs) ==
    IF NullDatabase(current) THEN <<>>
    ELSE IF DatabaseOf(current, lockedTabs).groups = <<>> THEN <<>>
    ELSE << [uuid |-> RootUuid(current),
             children |-> Len(DatabaseOf(current, lockedTabs).groups) - 1] >>

\* nothing was read
NoRead == [done |-> FALSE, key |-> NoKey, rootUuid |-> "", groups |-> <<>>]

\* lines 600-613: the databases the loop scans; without a current database and with an
\* empty key list databaseConnected returns false before it reads the null pointer
SearchedDatabases(keyList, searchInAllDatabases, current, lockedTabs) ==
    IF ~searchInAllDatabases /\ NullDatabase(current) THEN <<>>
    ELSE DatabasesToSearch(keyList, searchInAllDatabases, current, lockedTabs)

\* the state of a searchEntries call: its arguments, the position in the code, the
\* local hostname with the values it had in every round, the url handed to
\* searchEntries(db, url, submitUrl) in the last round, the result of every round, and
\* the list entries
SearchCall(url, keyList) ==
    [url |-> url, submitUrl |-> <<>>, keyList |-> keyList, pc |-> "idle",
     hostname |-> <<>>, hostnames |-> <<>>, scanUrl |-> <<>>, scans |-> <<>>,
     entries |-> <<>>, read |-> NoRead]

\* lines 589-616: the databases are collected and hostname is set
SearchStart ==
    /\ Running
    /\ acc.pc = "idle"
    /\ ~searchDereferencesNull(acc.keyList, Setting("searchInAllDatabases"), m_currentDatabaseWidget)
    /\ acc' = [acc EXCEPT !.pc = "scan", !.hostname = QUrl(acc.url).host]
    /\ UNCHANGED <<m_dialogActive, m_currentDatabaseWidget, locked, settings, entryFlags,
                   entryConfig, dialogs, response, crashed, associations>>

\* lines 609-610 without a current database: databaseConnected reads the key through
\* the null pointer getDatabase() returned.  The read either faults, or yields no key,
\* and then no database is searched.
SearchNullDatabase(faults) ==
    /\ Running
    /\ acc.pc = "idle"
    /\ searchDereferencesNull(acc.keyList, Setting("searchInAllDatabases"), m_currentDatabaseWidget)
    /\ crashed' = faults
    /\ acc' = IF faults THEN acc ELSE [acc EXCEPT !.pc = "scan", !.hostname = QUrl(acc.url).host]
    /\ UNCHANGED <<m_dialogActive, m_currentDatabaseWidget, locked, settings, entryFlags,
                   entryConfig, dialogs, response, associations>>

\* the state of the call after one round that scanned scan: the loop goes on while
\* entries is empty and removeFirstDomain(hostname) returns true
AfterRound(call, scan, relax) ==
    [call EXCEPT !.entries = call.entries \o scan,
                 !.scans = Append(call.scans, scan),
                 !.hostnames = Append(call.hostnames, call.hostname),
                 !.scanUrl = call.url,
                 !.hostname = IF call.entries \o scan = <<>> THEN relax[1] ELSE call.hostname,
                 !.pc = IF call.entries \o scan = <<>> /\ relax[2] THEN "scan" ELSE "done"]

\* one round of the do-while loop of lines 618-622
ScanRound ==
    /\ Running
    /\ acc.pc = "scan"
    /\ acc' = AfterRound(acc,
                         ScanDatabases(SearchedDatabases(acc.keyList, Setting("searchInAllDatabases"),
                                                         m_currentDatabaseWidget, locked),
                                       1, acc.url, acc.submitUrl, Setting("matchUrlScheme")),
                         removeFirstDomain(acc.hostname))
    /\ UNCHANGED <<m_dialogActive, m_currentDatabaseWidget, locked, settings, entryFlags,
                   entryConfig, dialogs, response, crashed, associations>>

\* the client asks for the key of its id, the root uuid and the groups
ReadDatabase ==
    /\ Running
    /\ ~acc.read.done
    /\ acc' = [acc EXCEPT !.read = [done |-> TRUE,
                                    key |-> getKey("c1", m_currentDatabaseWidget, locked),
                                    rootUuid |-> getDatabaseRootUuid(m_currentDatabaseWidget, locked),
                                    groups |-> getDatabaseGroups(m_currentDatabaseWidget, locked)]]
    /\ UNCHANGED <<m_dialogActive, m_currentDatabaseWidget, locked, settings, entryFlags,
                   entryConfig, dialogs, response, crashed, associations>>

InitSearch ==
    /\ m_dialogActive = FALSE
    /\ m_currentDatabaseWidget \in DbWidgets \cup {NoWidget}
    /\ locked \in [DbWidgets -> BOOLEAN]
    /\ \E on \in SUBSET {"searchInAllDatabases"} : settings = DefaultSettings \cup on
    /\ entryFlags = [o \in EntryOptions |-> {}]
    /\ entryConfig = [e \in Entries |-> NoConfig]
    /\ dialogs = <<>>
    /\ response = NoResponse
    /\ crashed = FALSE
    /\ associations \in [DbWidgets -> [ClientIds -> SearchKeys]]
    /\ \E url \in SearchUrls, keyList \in SearchKeyLists : acc = SearchCall(url, keyList)

NextSearch ==
    \/ SearchStart
    \/ \E faults \in BOOLEAN : SearchNullDatabase(faults)
    \/ ScanRound
    \/ ReadDatabase

SpecSearch == InitSearch /\ [][NextSearch]_vars

\* the loop is sequential code: a round that can run does run
SpecSearchLive == SpecSearch /\ WF_vars(ScanRound)


-----------------------------------------------------------------------------
(* sortPriority as a function of its inputs: the URL of the entry, and the  *)
(* host and the submit URL sortEntries hands on                             *)

PathP == <<"/", "p">>

PathPQ == <<"/", "p", "/", "q">>

PathQ == <<"/", "q">>

\* Entry::url() of the entries that are ranked
PriorityRecordUrls ==
    { UrlXC, UrlXC \o <<"/">>, UrlXC \o PathP, UrlXC \o PathPQ, UrlXC \o PathQ, UrlAXC,
      UrlAXC \o PathP, HostXC, HostXC \o PathP, HttpScheme \o SchemeSep \o HostXC,
      HttpsScheme \o SchemeSep \o Localhost, HttpsScheme \o SchemeSep \o Localhost \o PathP,
      HttpsScheme \o SchemeSep \o <<"n">>, HttpsScheme \o SchemeSep \o <<"n">> \o PathP,
      <<>> }

\* QUrl(url).host() of the page (line 355)
PriorityHosts == { HostXC, HostAXC, Localhost, <<"n">> }

\* the submit URL of the request, as the browser sends it
PrioritySubmitUrls ==
    { <<>>, UrlXC, UrlXC \o <<"/">>, UrlXC \o PathP, UrlXC \o PathPQ, UrlAXC, UrlAXC \o PathP,
      HttpsScheme \o SchemeSep \o Localhost \o PathP, HttpsScheme \o SchemeSep \o <<"n">> \o PathP,
      HostXC, UrlXC \o <<"c">> \o PathP }

\* lines 702-710 of sortEntries: the two text forms of the submit URL
SubmitUrlOf(entryUrl) == UrlToString(SortUrl(entryUrl), FALSE)

BaseSubmitUrlOf(entryUrl) == UrlToString(SortUrl(entryUrl), TRUE)

\* lines 900-910 of sortPriority: the two text forms of the URL of the entry
EntryURLOf(text) == UrlToString(WithRootPath(SortUrl(text)), FALSE)

BaseEntryURLOf(text) == UrlToString(WithRootPath(SortUrl(text)), TRUE)

\* sortPriority was not called
PriorityCall(entryUrl, host, submitUrl) ==
    [entryUrl |-> entryUrl, host |-> host, submitUrl |-> submitUrl, done |-> FALSE, result |-> 0]

InitPriority ==
    /\ m_dialogActive = FALSE
    /\ m_currentDatabaseWidget = NoWidget
    /\ locked = [w \in DbWidgets |-> FALSE]
    /\ settings = DefaultSettings
    /\ entryFlags = [o \in EntryOptions |-> {}]
    /\ entryConfig = [e \in Entries |-> NoConfig]
    /\ dialogs = <<>>
    /\ response = NoResponse
    /\ crashed = FALSE
    /\ associations = StoredKeys
    /\ \E entryUrl \in PriorityRecordUrls, host \in PriorityHosts, submitUrl \in PrioritySubmitUrls :
          acc = PriorityCall(entryUrl, host, submitUrl)

\* line 714: sortPriority(entry, host, submitUrl, baseSubmitUrl)
SortPriority ==
    /\ ~acc.done
    /\ acc' = [acc EXCEPT !.done = TRUE,
                          !.result = sortPriority(acc.entryUrl, acc.host,
                                                  SubmitUrlOf(acc.submitUrl),
                                                  BaseSubmitUrlOf(acc.submitUrl))]
    /\ UNCHANGED <<m_dialogActive, m_currentDatabaseWidget, locked, settings, entryFlags,
                   entryConfig, dialogs, response, crashed, associations>>

NextPriority == SortPriority

SpecPriority == InitPriority /\ [][NextPriority]_vars


-----------------------------------------------------------------------------
(* sortEntries as a function of its inputs: the list of entries, the host   *)
(* of the page, the submit URL and the two settings it reads                *)

\* the lists findMatchingEntries may hand over: up to three entries, an entry more
\* than once when the search returned it more than once
SortLists ==
    {<<>>} \cup [1..1 -> Entries] \cup [1..2 -> Entries] \cup [1..3 -> Entries]

\* sortEntries was not called
SortCall(pwEntries, url, entryUrl) ==
    [pwEntries |-> pwEntries, url |-> url, entryUrl |-> entryUrl, done |-> FALSE, result |-> <<>>]

InitSort ==
    /\ m_dialogActive = FALSE
    /\ m_currentDatabaseWidget = NoWidget
    /\ locked = [w \in DbWidgets |-> FALSE]
    /\ settings \in SUBSET {"sortByTitle", "bestMatchOnly"}
    /\ entryFlags = [o \in EntryOptions |-> {}]
    /\ entryConfig = [e \in Entries |-> NoConfig]
    /\ dialogs = <<>>
    /\ response = NoResponse
    /\ crashed = FALSE
    /\ associations = StoredKeys
    /\ \E pwEntries \in SortLists, url \in RequestUrls, entryUrl \in SortSubmitUrls :
          acc = SortCall(pwEntries, url, entryUrl)

\* line 415: pwEntries = sortEntries(pwEntries, host, submitUrl)
SortEntries ==
    /\ ~acc.done
    /\ acc' = [acc EXCEPT !.done = TRUE,
                          !.result = sortEntries(acc.pwEntries, acc.url, acc.entryUrl,
                                                 Setting("sortByTitle"), Setting("bestMatchOnly"))]
    /\ UNCHANGED <<m_dialogActive, m_currentDatabaseWidget, locked, settings, entryFlags,
                   entryConfig, dialogs, response, crashed, associations>>

NextSort == SortEntries

SpecSort == InitSort /\ [][NextSort]_vars


-----------------------------------------------------------------------------
(* BrowserService::processClientMessage and m_browserClients                *)

\* message["clientID"].toString(): "" for a message without the key or with an empty one
MessageClientIds == {"", "c1", "c2"}

\* m_browserClients.value(clientID) of an id that is no key of the hash
NoAction == 0

\* no message was handed over: m_browserClients is empty (line 63-73), no BrowserAction
\* was created, and no call of processClientMessage is on the stack
NoMessages ==
    [m_browserClients |-> [id \in MessageClientIds \ {""} |-> NoAction],
     created |-> 0, messages |-> <<>>, calls |-> <<>>]

InitClient ==
    /\ m_dialogActive = FALSE
    /\ m_currentDatabaseWidget = NoWidget
    /\ locked = [w \in DbWidgets |-> FALSE]
    /\ settings = DefaultSettings
    /\ entryFlags = [o \in EntryOptions |-> {}]
    /\ entryConfig = [e \in Entries |-> NoConfig]
    /\ dialogs = <<>>
    /\ response = NoResponse
    /\ crashed = FALSE
    /\ associations = StoredKeys
    /\ acc = NoMessages

\* lines 1272-1275 with a new BrowserAction inserted for every message
WithClient_AlwaysCreated(clients, clientID, created) ==
    [clients EXCEPT ![clientID] = created + 1]

\* lines 1272-1275: the hash after the lookup of clientID, with a new BrowserAction
\* (the next object that is created) when the id is no key yet
WithClient(clients, clientID, created) ==
    IF clients[clientID] = NoAction THEN [clients EXCEPT ![clientID] = created + 1] ELSE clients

\* lines 1278-1279 with no response forwarded
Responded_NotSent(messages, k) ==
    [messages EXCEPT ![k].returned = TRUE]

\* lines 1278-1279: the call of the message returned and its response was handed to
\* sendClientMessage
Responded(messages, k) ==
    [messages EXCEPT ![k].returned = TRUE, ![k].sent = @ + 1]

\* lines 1267-1270: a message without a client id is handed over, and the handler returns
DropClientMessage ==
    /\ Len(acc.messages) < MaxMessages
    /\ acc' = [acc EXCEPT !.messages =
                 Append(@, [clientID |-> "", action |-> NoAction, returned |-> TRUE, sent |-> 0])]
    /\ UNCHANGED <<m_dialogActive, m_currentDatabaseWidget, locked, settings, entryFlags,
                   entryConfig, dialogs, response, crashed, associations>>

\* lines 1267-1278: a message with a client id is handed over (from the event loop, or
\* from the event loop of a dialog that a call on the stack has open); its
\* BrowserAction is looked up or created, and action->processClientMessage is entered
ProcessClientMessage(clientID) ==
    /\ Len(acc.messages) < MaxMessages
    /\ clientID # ""
    /\ \E clients \in {WithClient(acc.m_browserClients, clientID, acc.created)} :
          acc' = [acc EXCEPT !.m_browserClients = clients,
                             !.created = IF clients = acc.m_browserClients THEN @ ELSE @ + 1,
                             !.messages = Append(@, [clientID |-> clientID,
                                                     action |-> clients[clientID],
                                                     returned |-> FALSE, sent |-> 0]),
                             !.calls = Append(@, Len(acc.messages) + 1)]
    /\ UNCHANGED <<m_dialogActive, m_currentDatabaseWidget, locked, settings, entryFlags,
                   entryConfig, dialogs, response, crashed, associations>>

\* lines 1278-1279: the innermost action->processClientMessage returns its response,
\* which is handed to m_browserHost->sendClientMessage, and the handler returns
SendClientMessage ==
    /\ acc.calls # <<>>
    /\ acc' = [acc EXCEPT !.messages = Responded(@, acc.calls[Len(acc.calls)]),
                          !.calls = SubSeq(@, 1, Len(@) - 1)]
    /\ UNCHANGED <<m_dialogActive, m_currentDatabaseWidget, locked, settings, entryFlags,
                   entryConfig, dialogs, response, crashed, associations>>

NextClient ==
    \/ DropClientMessage
    \/ \E clientID \in MessageClientIds : ProcessClientMessage(clientID)
    \/ SendClientMessage

SpecClient == InitClient /\ [][NextClient]_vars

\* every call that was entered returns: action->processClientMessage is a function call
SpecClientLive == SpecClient /\ WF_vars(SendClientMessage)


-----------------------------------------------------------------------------
(* BrowserService::storeKey: the label prompt, the overwrite prompt and the *)
(* events that arrive while they are open                                   *)

\* the key the client asks to store
NewKey == "k2"

\* QInputDialog::textValue(): nothing, or the label c1
Labels == {""} \cup ClientIds

\* CustomData::Created of an association: none, the one stored before the call, and
\* Clock::currentDateTime() of the call
CreatedTimes == {"none", "before", "now"}

\* the Database object a QSharedPointer of storeKey holds: the database of a tab, or
\* (detached) an object the tab has replaced since, with the keys and times it holds
DatabaseObject(w, lockedTabs, created) ==
    [tab |-> w, detached |-> FALSE,
     keys |-> DatabaseOf(w, lockedTabs).keys,
     created |-> IF lockedTabs[w] THEN [id \in ClientIds |-> "none"] ELSE created[w]]

NoDatabaseObject ==
    [tab |-> NoWidget, detached |-> FALSE, keys |-> [id \in ClientIds |-> NoKey],
     created |-> [id \in ClientIds |-> "none"]]

\* storeKey was not called
NoStoreCall(created) ==
    [pc |-> "idle", key |-> NoKey, db |-> NoDatabaseObject, connected |-> NoWidget, id |-> "",
     overwrite |-> "", result |-> "", created |-> created,
     before |-> [keys |-> associations, created |-> created]]

InitStore ==
    /\ m_dialogActive = FALSE
    /\ m_currentDatabaseWidget \in DbWidgets \cup {NoWidget}
    /\ locked \in [DbWidgets -> BOOLEAN]
    /\ settings = DefaultSettings
    /\ entryFlags = [o \in EntryOptions |-> {}]
    /\ entryConfig = [e \in Entries |-> NoConfig]
    /\ dialogs = <<>>
    /\ response = NoResponse
    /\ crashed = FALSE
    /\ associations \in [DbWidgets -> [ClientIds -> {NoKey, "k1"}]]
    /\ acc = NoStoreCall([w \in DbWidgets |->
                            [id \in ClientIds |->
                                IF associations[w][id] = NoKey THEN "none" ELSE "before"]])

\* db->metadata()->customData() of the object storeKey holds: the object itself when
\* it is detached, and what its tab holds now when it is not
HeldDatabase(call) ==
    IF call.db.detached THEN call.db
    ELSE DatabaseObject(call.db.tab, locked, call.created)

\* lines 331-334 without the two customData()->set calls
StoredKey_NotWritten(call, persisted, lockedTabs) ==
    [call |-> [call EXCEPT !.pc = "done", !.result = call.id],
     persisted |-> persisted]

\* lines 331-334: the key and the time are set in the database storeKey holds, and the
\* label is returned; a detached object is no database of any tab, and the object a
\* locked tab holds is not the database the tab has stored
StoredKey(call, persisted, lockedTabs) ==
    IF call.db.detached \/ lockedTabs[call.db.tab]
    THEN [call |-> [call EXCEPT !.pc = "done", !.result = call.id,
                                !.db.keys[call.id] = call.key, !.db.created[call.id] = "now"],
          persisted |-> persisted]
    ELSE [call |-> [call EXCEPT !.pc = "done", !.result = call.id,
                                !.created[call.db.tab][call.id] = "now"],
          persisted |-> [persisted EXCEPT ![call.db.tab][call.id] = call.key]]

\* lines 288-291: storeKey without a database widget
StoreKeyNullDatabase ==
    /\ acc.pc = "idle"
    /\ NullDatabase(m_currentDatabaseWidget)
    /\ acc' = [acc EXCEPT !.pc = "done", !.key = NewKey, !.result = ""]
    /\ UNCHANGED <<m_dialogActive, m_currentDatabaseWidget, locked, settings, entryFlags,
                   entryConfig, dialogs, response, crashed, associations>>

\* lines 288-310: storeKey(key) takes the database of the current tab and opens the
\* label prompt, connected to databaseLocked() of the current tab
StoreKey ==
    /\ acc.pc = "idle"
    /\ ~NullDatabase(m_currentDatabaseWidget)
    /\ acc' = [acc EXCEPT !.pc = "keyDialog", !.key = NewKey,
                          !.db = DatabaseObject(m_currentDatabaseWidget, locked, acc.created),
                          !.connected = m_currentDatabaseWidget]
    /\ UNCHANGED <<m_dialogActive, m_currentDatabaseWidget, locked, settings, entryFlags,
                   entryConfig, dialogs, response, crashed, associations>>

\* lines 310-329: keyDialog.exec() returns with the button and the text; storeKey
\* returns nothing, asks whether to overwrite, or stores the key
KeyDialogDone(ok, id) ==
    /\ acc.pc = "keyDialog"
    /\ IF ~ok \/ id = "" \/ ~isDatabaseOpened(m_currentDatabaseWidget, locked)
       THEN /\ acc' = [acc EXCEPT !.pc = "done", !.id = id, !.result = ""]
            /\ UNCHANGED associations
       ELSE IF HeldDatabase(acc).keys[id] # NoKey
       THEN /\ acc' = [acc EXCEPT !.pc = "warning", !.id = id]
            /\ UNCHANGED associations
       ELSE \E stored \in {StoredKey([acc EXCEPT !.id = id], associations, locked)} :
               /\ acc' = stored.call
               /\ associations' = stored.persisted
    /\ UNCHANGED <<m_dialogActive, m_currentDatabaseWidget, locked, settings, entryFlags,
                   entryConfig, dialogs, response, crashed>>

\* lines 320-334: MessageBox::warning returns Cancel and the loop opens the label
\* prompt again
OverwriteDeclined ==
    /\ acc.pc = "warning"
    /\ acc' = [acc EXCEPT !.pc = "keyDialog", !.connected = m_currentDatabaseWidget]
    /\ UNCHANGED <<m_dialogActive, m_currentDatabaseWidget, locked, settings, entryFlags,
                   entryConfig, dialogs, response, crashed, associations>>

\* lines 320-334: MessageBox::warning returns Overwrite, and the key is stored
OverwriteChosen ==
    /\ acc.pc = "warning"
    /\ \E stored \in {StoredKey([acc EXCEPT !.overwrite = acc.id], associations, locked)} :
          /\ acc' = stored.call
          /\ associations' = stored.persisted
    /\ UNCHANGED <<m_dialogActive, m_currentDatabaseWidget, locked, settings, entryFlags,
                   entryConfig, dialogs, response, crashed>>

\* the object storeKey holds once its tab has replaced its database
Detached(call, w) ==
    IF call.db.tab = w /\ ~call.db.detached
    THEN [call EXCEPT !.db = [HeldDatabase(call) EXCEPT !.detached = TRUE]]
    ELSE call

\* a tab locks its database while a prompt of storeKey is open: the tab holds another
\* Database object from now on, and line 299 rejects the label prompt of the tab it
\* was connected to (lines 314-317 then return nothing)
StoreDatabaseLocked(w) ==
    /\ acc.pc \in {"keyDialog", "warning"}
    /\ ~locked[w]
    /\ locked' = [locked EXCEPT ![w] = TRUE]
    /\ acc' = IF acc.pc = "keyDialog" /\ acc.connected = w
              THEN [Detached(acc, w) EXCEPT !.pc = "done", !.result = ""]
              ELSE Detached(acc, w)
    /\ UNCHANGED <<m_dialogActive, m_currentDatabaseWidget, settings, entryFlags, entryConfig,
                   dialogs, response, crashed, associations>>

\* a tab unlocks its database while a prompt of storeKey is open: the tab holds the
\* Database object read from the file from now on
StoreDatabaseUnlocked(w) ==
    /\ acc.pc \in {"keyDialog", "warning"}
    /\ locked[w]
    /\ locked' = [locked EXCEPT ![w] = FALSE]
    /\ acc' = Detached(acc, w)
    /\ UNCHANGED <<m_dialogActive, m_currentDatabaseWidget, settings, entryFlags, entryConfig,
                   dialogs, response, crashed, associations>>

\* activeDatabaseChanged(dbWidget), lines 1251-1263, while a prompt of storeKey is open
StoreActiveDatabaseChanged(w) ==
    /\ acc.pc \in {"keyDialog", "warning"}
    /\ w # m_currentDatabaseWidget
    /\ m_currentDatabaseWidget' = w
    /\ UNCHANGED <<m_dialogActive, locked, settings, entryFlags, entryConfig, dialogs, response,
                   crashed, associations, acc>>

NextStore ==
    \/ StoreKeyNullDatabase
    \/ StoreKey
    \/ \E ok \in BOOLEAN, id \in Labels : KeyDialogDone(ok, id)
    \/ OverwriteDeclined
    \/ OverwriteChosen
    \/ \E w \in DbWidgets : StoreDatabaseLocked(w)
    \/ \E w \in DbWidgets : StoreDatabaseUnlocked(w)
    \/ \E w \in DbWidgets : StoreActiveDatabaseChanged(w)

SpecStore == InitStore /\ [][NextStore]_vars


-----------------------------------------------------------------------------
(* BrowserService::updateEntry: the loop that follows password references   *)

\* what the password of an entry is: no reference ("none"), a reference whose
\* referenceUuid() is null ("null"), a reference to a UUID no entry has ("missing"),
\* or a reference to an entry
PasswordReferences == {"none", "null", "missing"} \cup Entries

\* the uuid of the request: of an entry, or of no entry of the database
UpdateUuids == Entries \cup {"missing"}

\* updateEntry was not called
UpdateCall(references, uuid) ==
    [pc |-> "idle", references |-> references, uuid |-> uuid, entry |-> "none", rounds |-> 0,
     added |-> FALSE, updated |-> "none", result |-> FALSE]

InitUpdate ==
    /\ m_dialogActive = FALSE
    /\ m_currentDatabaseWidget \in DbWidgets
    /\ locked = [w \in DbWidgets |-> FALSE]
    /\ settings = DefaultSettings
    /\ entryFlags = [o \in EntryOptions |-> {}]
    /\ entryConfig = [e \in Entries |-> NoConfig]
    /\ dialogs = <<>>
    /\ response = NoResponse
    /\ crashed = FALSE
    /\ associations = StoredKeys
    /\ \E references \in [Entries -> PasswordReferences], uuid \in UpdateUuids :
          acc = UpdateCall(references, uuid)

\* entry->attributes()->isReference(EntryAttributes::PasswordKey)
isReference(call, e) == call.references[e] # "none"

\* lines 488-497: updateEntry without a selected database, or for a uuid no entry has
\* (a new entry is added), or for an entry, with which the loop is entered
UpdateEntry(selected) ==
    /\ acc.pc = "idle"
    /\ acc' = IF ~selected THEN [acc EXCEPT !.pc = "done", !.result = FALSE]
              ELSE IF acc.uuid \notin Entries
                   THEN [acc EXCEPT !.pc = "done", !.added = TRUE, !.result = TRUE]
              ELSE [acc EXCEPT !.pc = "loop", !.entry = acc.uuid]
    /\ UNCHANGED <<m_dialogActive, m_currentDatabaseWidget, locked, settings, entryFlags,
                   entryConfig, dialogs, response, crashed, associations>>

\* lines 500-509: one round of the while loop for an entry whose password is a
\* reference; a null referenceUuid leaves entry as it is.  The rounds made are
\* counted modulo 2.
FollowReference ==
    /\ acc.pc = "loop"
    /\ isReference(acc, acc.entry)
    /\ acc' = IF acc.references[acc.entry] = "null"
              THEN [acc EXCEPT !.rounds = (@ + 1) % 2]
              ELSE IF acc.references[acc.entry] = "missing"
                   THEN [acc EXCEPT !.pc = "done", !.result = FALSE]
              ELSE [acc EXCEPT !.entry = acc.references[acc.entry], !.rounds = (@ + 1) % 2]
    /\ UNCHANGED <<m_dialogActive, m_currentDatabaseWidget, locked, settings, entryFlags,
                   entryConfig, dialogs, response, crashed, associations>>

\* lines 500, 511-544: the password of entry is no reference; the entry is updated
\* when it has a user name, the login or the password differ, and alwaysAllowUpdate is
\* on or the user chose Save
LeaveLoop(usernameEmpty, differs, save) ==
    /\ acc.pc = "loop"
    /\ ~isReference(acc, acc.entry)
    /\ acc' = IF ~usernameEmpty /\ differs /\ save
              THEN [acc EXCEPT !.pc = "done", !.updated = acc.entry, !.result = TRUE]
              ELSE [acc EXCEPT !.pc = "done", !.result = FALSE]
    /\ UNCHANGED <<m_dialogActive, m_currentDatabaseWidget, locked, settings, entryFlags,
                   entryConfig, dialogs, response, crashed, associations>>

UpdateReturns == \E usernameEmpty, differs, save \in BOOLEAN : LeaveLoop(usernameEmpty, differs, save)

NextUpdate ==
    \/ \E selected \in BOOLEAN : UpdateEntry(selected)
    \/ FollowReference
    \/ UpdateReturns

SpecUpdate == InitUpdate /\ [][NextUpdate]_vars

\* the loop runs: a round that can be made is made, and the function returns when the
\* loop is left
SpecUpdateLive == SpecUpdate /\ WF_vars(FollowReference) /\ WF_vars(UpdateReturns)

-----------------------------------------------------------------------------
(* handleURL as a function of its inputs: the URL text of the entry, the    *)
(* URL of the page, the submit URL and the matchUrlScheme setting           *)

HostBAXC == <<"b", "a", ".", "x", ".", "c">>

UrlHosts == { HostXC, HostAXC, <<"b", ".", "a", ".", "x", ".", "c">>, HostBAXC, <<"y", ".", "c">>,
              <<"x", ".", "o", ".", "u">>, <<"a", ".", "x", ".", "o", ".", "u">> }

\* the URL texts an entry may hold: a bare host, the host with a scheme, and one with
\* a port
RecordUrls ==
    UrlHosts \cup {HttpsScheme \o SchemeSep \o h : h \in UrlHosts}
             \cup {HttpScheme \o SchemeSep \o h : h \in UrlHosts}
             \cup {UrlXC \o <<":", "8">>}

\* a local file
UrlFile == FileScheme \o <<"/", "p">>

\* a web page whose path holds the text file://
UrlWithFileInPath == HttpsScheme \o SchemeSep \o <<"y", ".", "c", "/">> \o FileScheme

PageUrls ==
    {HttpsScheme \o SchemeSep \o h : h \in UrlHosts}
        \cup {HttpScheme \o SchemeSep \o h : h \in UrlHosts}
        \cup {UrlFile, UrlWithFileInPath}

PageSubmitUrls == {<<>>, UrlXC}

\* handleURL was not called
UrlCall(entryUrl, url, submitUrl) ==
    [entryUrl |-> entryUrl, url |-> url, submitUrl |-> submitUrl, done |-> FALSE, result |-> FALSE]

InitUrl ==
    /\ m_dialogActive = FALSE
    /\ m_currentDatabaseWidget = NoWidget
    /\ locked = [w \in DbWidgets |-> FALSE]
    /\ \E on \in SUBSET {"matchUrlScheme"} : settings = {"sortByTitle"} \cup on
    /\ entryFlags = [o \in EntryOptions |-> {}]
    /\ entryConfig = [e \in Entries |-> NoConfig]
    /\ dialogs = <<>>
    /\ response = NoResponse
    /\ crashed = FALSE
    /\ associations = StoredKeys
    /\ \E entryUrl \in RecordUrls, url \in PageUrls, submitUrl \in PageSubmitUrls :
          acc = UrlCall(entryUrl, url, submitUrl)

\* handleURL(entryUrl, url, submitUrl) is called
HandleUrl ==
    /\ ~acc.done
    /\ acc' = [acc EXCEPT !.done = TRUE,
                          !.result = handleURL(acc.entryUrl, acc.url, acc.submitUrl,
                                               Setting("matchUrlScheme"))]
    /\ UNCHANGED <<m_dialogActive, m_currentDatabaseWidget, locked, settings, entryFlags,
                   entryConfig, dialogs, response, crashed, associations>>

NextUrl == HandleUrl

SpecUrl == InitUrl /\ [][NextUrl]_vars

-----------------------------------------------------------------------------
(* checkAccess as a function of its inputs: the stored rule, the expiry of  *)
(* the entry, the allowExpiredCredentials setting, and the call's arguments *)

AccessHosts == {HostXC, HostAXC}

AccessRealms == {"", "r", "s"}

\* what an entry's custom data can hold: no rule, or any two host sets and a realm
StoredConfigs ==
    {NoConfig} \cup
    {[stored |-> TRUE, allowed |-> a, denied |-> d, realm |-> r] :
        a \in SUBSET AccessHosts, d \in SUBSET AccessHosts, r \in {"", "r"}}

InitAccess ==
    /\ m_dialogActive = FALSE
    /\ m_currentDatabaseWidget = NoWidget
    /\ locked = [w \in DbWidgets |-> FALSE]
    /\ \E on \in SUBSET {"allowExpiredCredentials"} : settings = DefaultSettings \cup on
    /\ \E exp \in SUBSET {"e1"} :
          entryFlags = [o \in EntryOptions |-> IF o = "expired" THEN exp ELSE {}]
    /\ \E c \in StoredConfigs :
          entryConfig = [e \in Entries |-> IF e = "e1" THEN c ELSE NoConfig]
    /\ dialogs = <<>>
    /\ response = NoResponse
    /\ crashed = FALSE
    /\ associations = StoredKeys
    /\ acc \in [host : AccessHosts, submitHost : AccessHosts \cup {<<>>},
                realm : AccessRealms, result : {"none"}]

\* checkAccess(entry, host, submitHost, realm) is called for the entry e1
CheckAccess ==
    /\ acc.result = "none"
    /\ acc' = [acc EXCEPT !.result = EntryAccess("e1", acc.host, acc.submitHost, acc.realm)]
    /\ UNCHANGED <<m_dialogActive, m_currentDatabaseWidget, locked, settings, entryFlags,
                   entryConfig, dialogs, response, crashed, associations>>

NextAccess == CheckAccess

SpecAccess == InitAccess /\ [][NextAccess]_vars

-----------------------------------------------------------------------------
(* The properties *)

\* the entries the user selected in the dialog the response reports
Approved(resp) ==
    IF resp.shown /\ resp.outcome = "accepted"
    THEN {resp.offered[r] : r \in Range(resp.selected)}
    ELSE {}

NotHidden(e) == ~HasOption(e, "BrowserHideEntry")

\* C1: at most one confirmation dialog is in flight.  A findMatchingEntries call that
\* enters confirmEntries while m_dialogActive is true gets an empty list at once: no
\* dialog is opened for it, m_dialogActive stays true, and no entry's stored rule changes.
C1_SingleDialogInFlight ==
    [][/\ Len(dialogs') <= 1
       /\ response'.busy =>
            /\ ~response'.shown
            /\ response'.confirmed = <<>>
            /\ m_dialogActive /\ m_dialogActive'
            /\ dialogs' = dialogs
            /\ entryConfig' = entryConfig]_vars

\* C1 happens: a request with entries to confirm was answered while a dialog was open
C1_Witness ==
    /\ dialogs # <<>>
    /\ response.busy
    /\ response.offered # <<>>
    /\ response.outcome = "returned"

\* C2: every confirmEntries call that set m_dialogActive has reset it when it returns,
\* whether the dialog was accepted, cancelled by the user, or rejected by a database
\* lock or a change of the active database; so m_dialogActive is true exactly while a
\* dialog is open, and a request that arrives when none is open and has entries to
\* confirm is shown its dialog.
C2_FlagResetOnEveryExit ==
    /\ m_dialogActive <=> dialogs # <<>>
    /\ response.shown =>
          /\ ~response.dialogActive
          /\ response.outcome \in {"accepted", "cancelled", "databaseLocked", "activeDatabaseChanged"}
    /\ (response.outcome = "returned" /\ ~response.busy) => response.offered = <<>>

\* C2 happens: a dialog was rejected by a database event and the flag is down again
C2_Witness ==
    /\ response.shown
    /\ response.outcome \in {"databaseLocked", "activeDatabaseChanged"}
    /\ ~m_dialogActive

\* C3 as stated: a findMatchingEntries call that has entries to confirm while another
\* request's dialog is open returns an empty result.
C3_BusyReturnsEmpty ==
    (response.busy /\ response.offered # <<>>) => response.result = <<>>

\* C3 amended: a findMatchingEntries call that has entries to confirm while another
\* request's dialog is open gets nothing confirmed; it returns the entries it included
\* without confirmation (Allowed, or Unknown with alwaysAllowAccess) and none of the
\* entries that needed confirmation, so the result is empty only when nothing was included.
C3_BusyReturnsOnlyIncluded ==
    (response.busy /\ response.offered # <<>>) =>
        /\ response.confirmed = <<>>
        /\ Range(response.result) \subseteq Range(response.pwEntries)
        /\ response.result = <<>> <=>
              (response.pwEntries = <<>> \/ ~isDatabaseOpened(m_currentDatabaseWidget, locked))
        /\ Range(response.result) \cap Range(response.offered) = {}

\* C3 amended happens: a busy call with entries to confirm returned an included entry
C3_Witness ==
    /\ response.busy
    /\ response.offered # <<>>
    /\ response.result # <<>>

C5_DeniedNeverDisclosed ==
    /\ \A i \in 1..Len(dialogs) :
          ~ConfirmsAll(dialogs[i].req.httpAuth) =>
             \A e \in Entries :
                dialogs[i].verdicts[e] = "Denied" => e \notin Range(dialogs[i].pwEntriesToConfirm)
    /\ ~ConfirmsAll(response.req.httpAuth) =>
          \A e \in Entries :
             response.verdicts[e] = "Denied" =>
                /\ e \notin Range(response.offered)
                /\ e \notin Range(response.result)

\* C5 happens: a request found an entry checkAccess called Denied and returned others
C5_Witness ==
    /\ ~ConfirmsAll(response.req.httpAuth)
    /\ \E e \in Range(response.found) : response.verdicts[e] = "Denied"
    /\ response.result # <<>>

\* C6: for a request that is not routed wholesale to confirmation, every returned entry
\* is Allowed, or Unknown with alwaysAllowAccess on (and then it was not offered), or
\* Unknown and selected by the user in an accepted dialog.
C6_UnknownNeedsApproval ==
    ~ConfirmsAll(response.req.httpAuth) =>
        \A e \in Range(response.result) :
            \/ response.verdicts[e] = "Allowed"
            \/ /\ response.verdicts[e] = "Unknown"
               /\ Setting("alwaysAllowAccess")
               /\ e \notin Range(response.offered)
            \/ /\ response.verdicts[e] = "Unknown"
               /\ e \in Approved(response)

\* C6 happens: an Unknown entry was returned because the user approved it, and another
\* offered Unknown entry was not returned
C6_Witness ==
    /\ ~ConfirmsAll(response.req.httpAuth)
    /\ ~Setting("alwaysAllowAccess")
    /\ \E e \in Range(response.result) : response.verdicts[e] = "Unknown"
    /\ \E e \in Range(response.offered) : e \notin Range(response.result)

\* C7: for an HTTP Basic Auth request with httpAuthPermission off, every found entry
\* that is not hidden is put in the to-confirm list, checkAccess is not called, nothing
\* is included without confirmation, and only entries the user approved are returned.
C7_HttpAuthConfirmsAll ==
    /\ \A i \in 1..Len(dialogs) :
          ConfirmsAll(dialogs[i].req.httpAuth) =>
             /\ dialogs[i].checked = {}
             /\ dialogs[i].pwEntries = <<>>
             /\ dialogs[i].pwEntriesToConfirm = SelectSeq(dialogs[i].found, NotHidden)
    /\ ConfirmsAll(response.req.httpAuth) =>
          /\ response.checked = {}
          /\ response.pwEntries = <<>>
          /\ response.offered = SelectSeq(response.found, NotHidden)
          /\ Range(response.result) \subseteq Approved(response)

\* C7 happens: an entry with an allow rule for the host was offered in the dialog of
\* an HTTP Basic Auth request and, the dialog being cancelled, was not returned
C7_Witness ==
    /\ ConfirmsAll(response.req.httpAuth)
    /\ response.shown
    /\ \E e \in Range(response.offered) :
          /\ EntryAccess(e, QUrl(response.req.url).host, QUrl(response.req.submitUrl).host,
                         response.req.realm) = "Allowed"
          /\ e \notin Range(response.result)

\* C8: an entry with the option BrowserHideEntry is never offered in the dialog and
\* never returned, whatever the request, the stored rules and the settings.
C8_HiddenNeverDisclosed ==
    \A e \in Entries :
        HasOption(e, "BrowserHideEntry") =>
            /\ \A i \in 1..Len(dialogs) :
                  /\ e \notin Range(dialogs[i].pwEntriesToConfirm)
                  /\ e \notin Range(dialogs[i].pwEntries)
            /\ e \notin Range(response.offered)
            /\ e \notin Range(response.pwEntries)
            /\ e \notin Range(response.result)

\* C8 happens: the search found a hidden entry, and the request returned other entries
C8_Witness ==
    /\ \E e \in Range(response.found) : HasOption(e, "BrowserHideEntry")
    /\ response.result # <<>>

\* C9: checkAccess returns Allowed, Denied or Unknown.  Without a stored rule it returns
\* Unknown.  For an entry that is not expired and has a stored rule it returns Allowed
\* exactly when host is allowed and submitHost is empty or allowed; otherwise it
\* returns Denied when host is denied, or submitHost is not empty and denied.
C9_CheckAccessRules ==
    LET c      == entryConfig["e1"]
        allows == /\ acc.host \in c.allowed
                  /\ (acc.submitHost = <<>> \/ acc.submitHost \in c.allowed)
        denies == \/ acc.host \in c.denied
                  \/ (acc.submitHost # <<>> /\ acc.submitHost \in c.denied)
    IN acc.result # "none" =>
          /\ acc.result \in Access
          /\ ~c.stored => acc.result = "Unknown"
          /\ (c.stored /\ ~HasOption("e1", "expired")) =>
                /\ acc.result = "Allowed" <=> allows
                /\ (~allows /\ denies) => acc.result = "Denied"

\* C9 happens: host is allowed, but a submitHost that is not allowed is denied
C9_Witness ==
    /\ acc.result = "Denied"
    /\ entryConfig["e1"].stored
    /\ ~HasOption("e1", "expired")
    /\ acc.host \in entryConfig["e1"].allowed
    /\ acc.host \notin entryConfig["e1"].denied
    /\ acc.submitHost # <<>>
    /\ acc.submitHost \in entryConfig["e1"].denied

\* C10: the realm is compared only after the host rules.  A not expired entry whose
\* host (and submitHost, when not empty) is allowed is Allowed whatever the realm; a
\* differing realm gives Denied only when neither the allow rule nor the deny rule
\* decided; and with an empty requested realm Denied comes from the deny rule alone.
C10_RealmCheckedLast ==
    LET c      == entryConfig["e1"]
        allows == /\ acc.host \in c.allowed
                  /\ (acc.submitHost = <<>> \/ acc.submitHost \in c.allowed)
        denies == \/ acc.host \in c.denied
                  \/ (acc.submitHost # <<>> /\ acc.submitHost \in c.denied)
        differs == acc.realm # "" /\ c.realm # acc.realm
    IN (acc.result # "none" /\ c.stored /\ ~HasOption("e1", "expired")) =>
          /\ allows => acc.result = "Allowed"
          /\ (acc.result = "Denied" /\ ~denies) => (differs /\ ~allows)
          /\ (~allows /\ ~denies /\ differs) => acc.result = "Denied"
          /\ (acc.realm = "" /\ acc.result = "Denied") => denies

\* C10 happens: the requested realm differs from the stored one and the entry is Allowed
C10_Witness ==
    /\ acc.result = "Allowed"
    /\ entryConfig["e1"].stored
    /\ ~HasOption("e1", "expired")
    /\ acc.realm # ""
    /\ entryConfig["e1"].realm # acc.realm

\* C11: for an expired entry with a stored rule checkAccess returns Allowed when
\* allowExpiredCredentials is on and Denied when it is off, whatever the allowed hosts,
\* the denied hosts and the realm are; an expired entry without a stored rule is Unknown,
\* the missing rule being looked at first.
C11_ExpiredByGlobalSetting ==
    (acc.result # "none" /\ HasOption("e1", "expired")) =>
        /\ entryConfig["e1"].stored =>
              acc.result = IF Setting("allowExpiredCredentials") THEN "Allowed" ELSE "Denied"
        /\ ~entryConfig["e1"].stored => acc.result = "Unknown"

\* C11 happens: an expired entry whose rule denies the host is Allowed by the setting
C11_Witness ==
    /\ acc.result = "Allowed"
    /\ HasOption("e1", "expired")
    /\ entryConfig["e1"].stored
    /\ acc.host \in entryConfig["e1"].denied
    /\ acc.host \notin entryConfig["e1"].allowed
    /\ Setting("allowExpiredCredentials")

\* the rule allows the host of the request, and its submit host when there is one
AllowsRequest(rule, req) ==
    /\ QUrl(req.url).host \in AllowedHosts(rule)
    /\ QUrl(req.submitUrl).host # <<>> => QUrl(req.submitUrl).host \in AllowedHosts(rule)

\* the call is not an HTTP Basic Auth request, and every entry it found that is not
\* expired and whose rule allowed the request when the call was made got the verdict
\* Allowed and was included without being offered for confirmation
AllowedIsIncluded(call, rules, offered) ==
    ~call.req.httpAuth =>
        \A e \in Range(call.found) :
            (AllowsRequest(rules[e], call.req) /\ ~HasOption(e, "expired")) =>
                /\ call.verdicts[e] = "Allowed"
                /\ e \in Range(call.pwEntries)
                /\ e \notin Range(offered)

\* C12: when the dialog is accepted with "remember" set, the stored rule of every
\* selected entry allows the host of the request, and its submit host when that is not
\* empty and differs from the host.  A later request that is not an HTTP Basic Auth
\* request gets the verdict Allowed for every not expired entry with such a rule and
\* includes it without offering it for confirmation; the same request repeated right
\* after the accepted dialog returns every entry the user had selected, and no dialog
\* is opened when all the entries it found were selected.
C12_RememberedIsAllowed ==
    /\ [](/\ (response.shown /\ response.outcome = "accepted" /\ response.remember) =>
                \A e \in Approved(response) : AllowsRequest(entryConfig[e], response.req)
          /\ \A i \in 1..Len(dialogs) :
                AllowedIsIncluded(dialogs[i], dialogs[i].rules, dialogs[i].pwEntriesToConfirm)
          /\ AllowedIsIncluded(response, response.rulesBefore, response.offered)
          /\ (/\ response.outcome # "NoResponse"
              /\ ~response.req.httpAuth
              /\ \A e \in Range(response.found) :
                    AllowsRequest(response.rulesBefore[e], response.req)) =>
                /\ ~response.shown
                /\ isDatabaseOpened(m_currentDatabaseWidget, locked) =>
                      Range(response.result) = Range(response.found))
    /\ [][(/\ response.shown /\ response.outcome = "accepted" /\ response.remember
            /\ response'.req = response.req
            /\ response'.outcome = "returned") =>
              /\ Approved(response) \subseteq Range(response'.result)
              /\ \A e \in Approved(response) : response'.verdicts[e] = "Allowed"
              /\ Range(response.found) = Approved(response) => ~response'.shown]_vars

\* C12 happens: a request with a submit host other than its host is answered without
\* a dialog, with entries whose remembered rule allows both hosts
C12_Witness ==
    /\ response.outcome = "returned"
    /\ ~response.shown
    /\ ~response.req.httpAuth
    /\ QUrl(response.req.submitUrl).host = HostXC
    /\ response.result # <<>>
    /\ \A e \in Range(response.result) :
          /\ response.verdicts[e] = "Allowed"
          /\ {HostAXC, HostXC} \subseteq AllowedHosts(entryConfig[e])

\* the rule denies the host of the request, and its submit host when there is one, and
\* holds the realm of the request when that is not empty
DeniesRequest(rule, req) ==
    /\ rule.stored
    /\ ConfigIsDenied(rule, QUrl(req.url).host)
    /\ QUrl(req.submitUrl).host # <<>> => ConfigIsDenied(rule, QUrl(req.submitUrl).host)
    /\ req.realm # "" => rule.realm = req.realm

\* C13 as stated: when a confirmation dialog has ended with "remember" not set, every
\* entry holds the rule (allowed hosts, denied hosts, realm) it held when the dialog was
\* opened, the entries the user rejected in the dialog included.
C13_RememberGatesAllRules ==
    (response.shown /\ ~response.remember) => entryConfig = response.rulesBefore

\* C13 amended: only the allow rules depend on "remember".  When a confirmation dialog
\* has ended with "remember" not set, no entry's allowed hosts have gained a host, and
\* the only entries whose rule differs from the one they held when the dialog was opened
\* are offered entries the user rejected in the dialog: their rule, saved at the moment
\* of the rejection whatever "remember" is, denies the host of the request (and its
\* submit host) and holds the realm of the request when that is not empty.
C13_OnlyAllowNeedsRemember ==
    (response.shown /\ ~response.remember) =>
        \A e \in Entries :
            /\ AllowedHosts(entryConfig[e]) \subseteq AllowedHosts(response.rulesBefore[e])
            /\ entryConfig[e] # response.rulesBefore[e] =>
                  /\ e \in Range(response.offered)
                  /\ DeniesRequest(entryConfig[e], response.req)

\* C13 amended happens: a dialog was accepted without "remember" for a selected entry,
\* after the user had rejected another entry, whose rule has changed
C13_Witness ==
    /\ response.shown
    /\ response.outcome = "accepted"
    /\ ~response.remember
    /\ response.confirmed # <<>>
    /\ \E e \in Range(response.offered) :
          /\ entryConfig[e] # response.rulesBefore[e]
          /\ e \notin Range(response.confirmed)
    /\ \A e \in Range(response.confirmed) : entryConfig[e] = response.rulesBefore[e]

\* the tab whose database holds the entry
EntryTab(e) ==
    CHOOSE w \in DbWidgets :
        \E g \in 1..Len(DbGroups(w)) : e \in Range(DbGroups(w)[g].entries)

\* the database of the tab holds, for the client id of some pair of the key list, a
\* key that is not empty and equals the key of the pair
Associated(w, keyList) ==
    \E i \in 1..Len(keyList) :
        /\ keyList[i][1] \in ClientIds
        /\ associations[w][keyList[i][1]] # NoKey
        /\ associations[w][keyList[i][1]] = keyList[i][2]

\* C14: every entry searchEntries(url, submitUrl, keyList) has collected comes from an
\* unlocked database that holds a non-empty key equal to the key of some pair of
\* keyList; when searchInAllDatabases is off it comes from the current database; and
\* with an empty keyList nothing is collected.
C14_OnlyAssociatedDatabases ==
    /\ \A e \in Range(acc.entries) :
          /\ Associated(EntryTab(e), acc.keyList)
          /\ ~locked[EntryTab(e)]
          /\ ~Setting("searchInAllDatabases") => EntryTab(e) = m_currentDatabaseWidget
    /\ acc.keyList = <<>> => acc.entries = <<>>

\* C14 happens: with searchInAllDatabases on, the entries of the associated database
\* were returned and the matching entry of an unlocked database that holds another key
\* was not
C14_Witness ==
    /\ acc.pc = "done"
    /\ Setting("searchInAllDatabases")
    /\ acc.url = UrlAXC
    /\ ~locked["w2"]
    /\ associations["w2"]["c1"] = "k2"
    /\ acc.keyList = << <<"c1", "k1">> >>
    /\ "e1" \in Range(acc.entries)
    /\ "e3" \notin Range(acc.entries)

\* C15 as stated: without a current database every read operation completes and
\* returns an empty result: getKey, getDatabaseRootUuid and getDatabaseGroups, and the
\* search of the current database behind findMatchingEntries, which does not fail.
C15_NoDatabaseReadsEmpty ==
    NullDatabase(m_currentDatabaseWidget) =>
        /\ acc.read.done =>
              /\ acc.read.key = NoKey
              /\ acc.read.rootUuid = ""
              /\ acc.read.groups = <<>>
        /\ ~Setting("searchInAllDatabases") =>
              /\ ~crashed
              /\ acc.entries = <<>>

\* the part of C15 the code keeps: the three read operations return an empty result
\* without a current database, and so does the search when the key list is empty
C15_GuardedReadsEmpty ==
    NullDatabase(m_currentDatabaseWidget) =>
        /\ acc.read.done =>
              /\ acc.read.key = NoKey
              /\ acc.read.rootUuid = ""
              /\ acc.read.groups = <<>>
        /\ (~Setting("searchInAllDatabases") /\ acc.keyList = <<>>) =>
              /\ ~crashed
              /\ acc.entries = <<>>

\* C15 fails: the search of the current database was asked for with a key list that is
\* not empty while there was no current database, and the null pointer was read
C15_Witness ==
    /\ NullDatabase(m_currentDatabaseWidget)
    /\ ~Setting("searchInAllDatabases")
    /\ acc.keyList # <<>>
    /\ crashed

\* the hostname without its left-most label
WithoutFirstLabel(hostname) == Mid(hostname, IndexOfChar(hostname, ".") + 1)

\* the values hostname had in the rounds of the loop: each is the one before without
\* its left-most label, and only a hostname with more than one dot was stripped
StripsOneLabelPerRound(hostnames) ==
    \A k \in 1..(Len(hostnames) - 1) :
        /\ CountChar(hostnames[k], ".") > 1
        /\ hostnames[k + 1] = WithoutFirstLabel(hostnames[k])
        /\ CountChar(hostnames[k + 1], ".") >= 1

\* C16: removeFirstDomain strips the left-most label only while the hostname has more
\* than one dot, so a hostname is never stripped to a bare label: for a.b.c.d the rounds
\* of the loop see a.b.c.d, b.c.d and c.d, and then removeFirstDomain returns false and
\* leaves c.d.  The loop of searchEntries makes at most as many scans as the host has
\* dots (one for a host without dots), every scan before the last one was empty, it
\* ends on the first non-empty result or when removeFirstDomain returns false, and a
\* call that has entered the loop leaves it.
C16_RelaxationTerminates ==
    /\ [](/\ StripsOneLabelPerRound(IF acc.pc = "scan" THEN Append(acc.hostnames, acc.hostname)
                                     ELSE acc.hostnames)
          /\ Len(acc.scans) <= CountChar(QUrl(acc.url).host, ".")
          /\ \A k \in 1..(Len(acc.scans) - 1) : acc.scans[k] = <<>>
          /\ acc.pc = "scan" => acc.entries = <<>>
          /\ acc.pc = "done" =>
                \/ acc.entries # <<>>
                \/ removeFirstDomain(acc.hostname) = <<acc.hostname, FALSE>>
          /\ (acc.pc = "done" /\ acc.entries = <<>> /\ acc.url = UrlABCD) =>
                /\ acc.hostnames = << HostABCD, <<"b", ".", "c", ".", "d">>, <<"c", ".", "d">> >>
                /\ acc.hostname = <<"c", ".", "d">>)
    /\ (acc.pc = "scan") ~> (acc.pc = "done")

\* C16 happens: the search for a.b.c.d found nothing in three scans and stopped at c.d
C16_Witness ==
    /\ acc.pc = "done"
    /\ acc.url = UrlABCD
    /\ acc.entries = <<>>
    /\ Len(acc.scans) = 3
    /\ acc.hostname = <<"c", ".", "d">>

\* the sequence holds no entry twice
NoDuplicates(entries) ==
    \A i, j \in 1..Len(entries) : entries[i] = entries[j] => i = j

\* C17 as stated: when the scan with the full request host found nothing, every
\* following round hands the scan the relaxed host, which is the value hostname has in
\* that round, and not the host of the request.
C17_RelaxedHostIsMatched ==
    Len(acc.scans) >= 2 =>
        /\ QUrl(acc.scanUrl).host = acc.hostnames[Len(acc.hostnames)]
        /\ QUrl(acc.scanUrl).host # QUrl(acc.url).host

\* what the code does instead of C17: every round hands the scan the url of the
\* request, whatever hostname has become, so every round returns what the first one
\* returned, which is nothing
C17_EveryRoundScansRequestUrl ==
    Len(acc.scans) >= 1 =>
        /\ acc.scanUrl = acc.url
        /\ \A k \in 1..Len(acc.scans) : acc.scans[k] = acc.scans[1]

\* C17 fails: a second round ran with hostname relaxed to b.c.d and scanned a.b.c.d
C17_Witness ==
    /\ Len(acc.scans) >= 2
    /\ acc.hostnames[2] = <<"b", ".", "c", ".", "d">>
    /\ QUrl(acc.scanUrl).host = HostABCD

\* C18 as stated: one scan of one database returns every entry at most once, whatever
\* combination of its primary URL and its KP2A_URL attributes matches.  (The databases
\* of one round hold different entries, so a round returns an entry twice exactly
\* when the scan of one database does.)
C18_EntryAtMostOnce ==
    \A k \in 1..Len(acc.scans) : NoDuplicates(acc.scans[k])

\* the part of C18 the code keeps: the KP2A_URL attributes of an entry add it at most
\* once, and its primary URL at most once more
C18_EntryAtMostTwice ==
    \A k \in 1..Len(acc.scans) :
        \A e \in Entries : Cardinality({i \in 1..Len(acc.scans[k]) : acc.scans[k][i] = e}) <= 2

\* C18 fails: the entry whose KP2A_URL attribute and primary URL both match the page
\* was returned twice by one scan
C18_Witness ==
    /\ acc.url = UrlAXC
    /\ Len(acc.scans) = 1
    /\ \E i, j \in 1..Len(acc.scans[1]) :
          i # j /\ acc.scans[1][i] = "e3" /\ acc.scans[1][j] = "e3"

\* the host of the record URL of the call, as handleURL reads it, and the host of the page
RecordHost == EntryQUrl(acc.entryUrl, Setting("matchUrlScheme")).host

PageHost == QUrl(acc.url).host

\* the record URL of the call is a bare host h1, the page is not a local file and has
\* the host h2, h1 and h2 have the same registrable domain, and h2 ends with h1
SuffixCase ==
    /\ acc.done
    /\ acc.entryUrl \in UrlHosts
    /\ ~ContainsStr(acc.url, FileScheme)
    /\ baseDomain(PageHost) = baseDomain(acc.entryUrl)
    /\ EndsWith(PageHost, acc.entryUrl)

\* the record URL of the call is a bare host h2, the page is not a local file and has
\* the host h1, the two have the same registrable domain, h2 ends with h1 and is not h1
ReverseCase ==
    /\ acc.done
    /\ acc.entryUrl \in UrlHosts
    /\ ~ContainsStr(acc.url, FileScheme)
    /\ baseDomain(PageHost) = baseDomain(acc.entryUrl)
    /\ EndsWith(acc.entryUrl, PageHost)
    /\ acc.entryUrl # PageHost

\* C19 as stated: for hosts h1 and h2 with the same registrable domain and h2 ending
\* with h1, handleURL is true for the record h1 and a page with the host h2, whatever
\* the scheme of the page and the matchUrlScheme setting are; and false for the record
\* h2 and a page with the host h1, unless h1 = h2.
C19_SuffixMatchesAnyScheme ==
    /\ SuffixCase => acc.result
    /\ ReverseCase => ~acc.result

\* C19 amended: for hosts h1 and h2 with the same registrable domain and h2 ending
\* with h1, handleURL for the record h1 and a page with the host h2 is true when
\* matchUrlScheme is off, whatever the scheme of the page; when matchUrlScheme is on,
\* the record without a scheme is read as an https URL and handleURL is true exactly
\* when the page is an https page.  For the record h2 and a page with the host h1 it
\* is false, unless h1 = h2.
C19_SuffixMatchesBySchemeSetting ==
    /\ SuffixCase =>
          (acc.result <=> (~Setting("matchUrlScheme") \/ QUrl(acc.url).scheme = HttpsScheme))
    /\ ReverseCase => ~acc.result

\* C19 amended happens: with matchUrlScheme on, the record x.c was refused for the
\* page http://a.x.c
C19_Witness ==
    /\ SuffixCase
    /\ Setting("matchUrlScheme")
    /\ acc.entryUrl = HostXC
    /\ acc.url = HttpScheme \o SchemeSep \o HostAXC
    /\ ~acc.result

\* C20 as stated: for a page that is not a local file (its scheme is not file),
\* handleURL is true only if the registrable domain of the host of the page equals the
\* registrable domain of the host of the record.
C20_DomainBypassOnlyForFiles ==
    (acc.done /\ acc.result /\ QUrl(acc.url).scheme # <<"f", "i", "l", "e">>) =>
        baseDomain(PageHost) = baseDomain(RecordHost)

\* what the code does instead of C20: the comparison of record URL and submit URL
\* decides for every page whose URL text holds file:// anywhere, and the registrable
\* domains are compared for all other pages
C20_DomainBypassForFileText ==
    acc.done =>
        /\ ContainsStr(acc.url, FileScheme) => (acc.result <=> acc.entryUrl = acc.submitUrl)
        /\ (acc.result /\ ~ContainsStr(acc.url, FileScheme)) =>
              baseDomain(PageHost) = baseDomain(RecordHost)

\* C20 fails: the https page of y.c whose path holds file:// was matched with the
\* record of x.c, because the record URL equals the submit URL
C20_Witness ==
    /\ acc.done
    /\ acc.result
    /\ acc.url = UrlWithFileInPath
    /\ QUrl(acc.url).scheme = HttpsScheme
    /\ acc.entryUrl = UrlXC
    /\ baseDomain(PageHost) # baseDomain(RecordHost)

\* the value of the first rule of an ordered table that matches, 0 when none does
RECURSIVE FirstMatch(_)
FirstMatch(rules) ==
    IF rules = <<>> THEN 0
    ELSE IF rules[1][1] THEN rules[1][2]
    ELSE FirstMatch(Tail(rules))

\* the rules above 70 of the table, for the call of the state
UpperRules ==
    << << ~ContainsChar(SortUrl(acc.entryUrl).host, ".") /\ SortUrl(acc.entryUrl).host # Localhost, 0 >>,
       << SubmitUrlOf(acc.submitUrl) = EntryURLOf(acc.entryUrl), 100 >>,
       << /\ StartsWith(SubmitUrlOf(acc.submitUrl), EntryURLOf(acc.entryUrl))
          /\ EntryURLOf(acc.entryUrl) # acc.host
          /\ BaseSubmitUrlOf(acc.submitUrl) # EntryURLOf(acc.entryUrl), 90 >>,
       << /\ StartsWith(SubmitUrlOf(acc.submitUrl), BaseEntryURLOf(acc.entryUrl))
          /\ EntryURLOf(acc.entryUrl) # acc.host
          /\ BaseSubmitUrlOf(acc.submitUrl) # BaseEntryURLOf(acc.entryUrl), 80 >>,
       << EntryURLOf(acc.entryUrl) = acc.host, 70 >>,
       << EntryURLOf(acc.entryUrl) = BaseSubmitUrlOf(acc.submitUrl), 60 >> >>

LowestRules ==
    << << StartsWith(EntryURLOf(acc.entryUrl), acc.host), 10 >>,
       << StartsWith(acc.host, EntryURLOf(acc.entryUrl)), 5 >> >>

\* C21 as stated: sortPriority is the value of the first matching rule of the table
\* that gives 50 when the submit URL starts with the record URL, 40 when the submit
\* URL starts with the base record URL and that base is not the host, 30 when the
\* record URL starts with the submit URL and 20 when the record URL starts with the
\* base submit URL (70, 60, 10, 5 and 0 as in the table).
C21_TableSubmitPrefixFirst ==
    acc.done =>
        acc.result = FirstMatch(UpperRules
            \o << << StartsWith(SubmitUrlOf(acc.submitUrl), EntryURLOf(acc.entryUrl)), 50 >>,
                  << /\ StartsWith(SubmitUrlOf(acc.submitUrl), BaseEntryURLOf(acc.entryUrl))
                     /\ BaseEntryURLOf(acc.entryUrl) # acc.host, 40 >>,
                  << StartsWith(EntryURLOf(acc.entryUrl), SubmitUrlOf(acc.submitUrl)), 30 >>,
                  << StartsWith(EntryURLOf(acc.entryUrl), BaseSubmitUrlOf(acc.submitUrl)), 20 >> >>
            \o LowestRules)

\* C21 amended: sortPriority is the value of the first matching rule of the table
\* that gives 50 when the record URL starts with the submit URL, 40 when the record
\* URL starts with the base submit URL and the base submit URL is not the host, 30
\* when the submit URL starts with the record URL and 20 when the submit URL starts
\* with the base record URL (70, 60, 10, 5 and 0 as in the table).
C21_TableRecordPrefixFirst ==
    acc.done =>
        acc.result = FirstMatch(UpperRules
            \o << << StartsWith(EntryURLOf(acc.entryUrl), SubmitUrlOf(acc.submitUrl)), 50 >>,
                  << /\ StartsWith(EntryURLOf(acc.entryUrl), BaseSubmitUrlOf(acc.submitUrl))
                     /\ BaseSubmitUrlOf(acc.submitUrl) # acc.host, 40 >>,
                  << StartsWith(SubmitUrlOf(acc.submitUrl), EntryURLOf(acc.entryUrl)), 30 >>,
                  << StartsWith(SubmitUrlOf(acc.submitUrl), BaseEntryURLOf(acc.entryUrl)), 20 >> >>
            \o LowestRules)

\* C21 amended happens: the record https://x.c/p/q starts with the submit URL
\* https://x.c/p and got 50
C21_Witness ==
    /\ acc.done
    /\ acc.entryUrl = UrlXC \o PathPQ
    /\ acc.submitUrl = UrlXC \o PathP
    /\ acc.result = 50

\* the normalised URL of the entry of the call equals the submit URL exactly
ExactMatch == acc.done /\ EntryURLOf(acc.entryUrl) = SubmitUrlOf(acc.submitUrl)

\* the normalised URL of another entry is a proper prefix of the submit URL of the
\* call, or the submit URL is a proper prefix of it
PrefixOnly(other) ==
    /\ EntryURLOf(other) # SubmitUrlOf(acc.submitUrl)
    /\ \/ StartsWith(SubmitUrlOf(acc.submitUrl), EntryURLOf(other))
       \/ StartsWith(EntryURLOf(other), SubmitUrlOf(acc.submitUrl))

\* sortPriority of another entry for the request of the call
OtherPriority(other) ==
    sortPriority(other, acc.host, SubmitUrlOf(acc.submitUrl), BaseSubmitUrlOf(acc.submitUrl))

\* C22 as stated: for one request, an entry whose normalised URL equals the submit
\* URL gets a strictly higher sortPriority than every entry whose URL is only a
\* prefix of the submit URL or prefixed by it, whatever the host of the record is.
C22_ExactOutranksPrefix ==
    ExactMatch =>
        \A other \in PriorityRecordUrls : PrefixOnly(other) => OtherPriority(other) < acc.result

\* C22 amended: for one request, an entry whose normalised URL equals the submit URL
\* and whose host holds a dot or is localhost gets 100, and every entry whose URL is
\* only a prefix of the submit URL or prefixed by it gets less; an entry whose host
\* has no dot and is not localhost gets 0 even when its URL equals the submit URL.
C22_ExactOutranksPrefixOfDottedHost ==
    ExactMatch =>
        IF ContainsChar(SortUrl(acc.entryUrl).host, ".") \/ SortUrl(acc.entryUrl).host = Localhost
        THEN /\ acc.result = 100
             /\ \A other \in PriorityRecordUrls :
                    PrefixOnly(other) => OtherPriority(other) < acc.result
        ELSE acc.result = 0

\* C22 amended happens: the record https://x.c/p/q equals the submit URL and got 100,
\* and the record https://x.c/p, a prefix of the submit URL, gets 90
C22_Witness ==
    /\ ExactMatch
    /\ acc.entryUrl = UrlXC \o PathPQ
    /\ acc.result = 100
    /\ PrefixOnly(UrlXC \o PathP)
    /\ OtherPriority(UrlXC \o PathP) = 90

\* the case C22 as stated fails in: the record https://n/p of a host without a dot
\* equals the submit URL and got 0
C22_DotlessExactMatch ==
    /\ ExactMatch
    /\ acc.entryUrl = HttpsScheme \o SchemeSep \o <<"n">> \o PathP
    /\ acc.result = 0

\* sortPriority of an entry for the request of the sortEntries call of the state
SortedPriority(e) == Priorities[e, acc.url, acc.entryUrl]

\* how often an entry occurs in a list
Occurrences(list, e) == Cardinality({i \in 1..Len(list) : list[i] = e})

\* C23: sortEntries returns the entries in non-increasing order of sortPriority;
\* entries of equal priority are in ascending order of the configured field (Title or
\* UserName), and entries equal in that field in ascending order of UserName.
C23_SortedByPriorityThenField ==
    acc.done =>
        \A i, j \in 1..Len(acc.result) :
            i < j =>
                /\ SortedPriority(acc.result[i]) >= SortedPriority(acc.result[j])
                /\ SortedPriority(acc.result[i]) = SortedPriority(acc.result[j]) =>
                     /\ localeAwareCompare(EntryField(acc.result[i], Setting("sortByTitle")),
                                           EntryField(acc.result[j], Setting("sortByTitle"))) <= 0
                     /\ localeAwareCompare(EntryField(acc.result[i], Setting("sortByTitle")),
                                           EntryField(acc.result[j], Setting("sortByTitle"))) = 0 =>
                          localeAwareCompare(EntryUserName(acc.result[i]),
                                             EntryUserName(acc.result[j])) <= 0

\* C23 happens: e2, e1, e3 were sorted by title for the submit URL of e1, and came out
\* as e1 (priority 100), then e3 and e2 (priority 0, equal titles, user names u and v)
C23_Witness ==
    /\ acc.done
    /\ Setting("sortByTitle")
    /\ ~Setting("bestMatchOnly")
    /\ acc.pwEntries = <<"e2", "e1", "e3">>
    /\ acc.result = <<"e1", "e3", "e2">>
    /\ SortedPriority("e1") > SortedPriority("e3")
    /\ SortedPriority("e3") = SortedPriority("e2")

\* C24: with bestMatchOnly on and a non-empty input, sortEntries returns exactly the
\* entries of the input whose sortPriority is the maximum over the input, each as
\* often as the input holds it, also when that maximum is 0.
C24_BestMatchOnlyIsTopBucket ==
    (acc.done /\ Setting("bestMatchOnly") /\ acc.pwEntries # <<>>) =>
        \A e \in Entries :
            Occurrences(acc.result, e) =
                IF \A k \in 1..Len(acc.pwEntries) :
                       SortedPriority(e) >= SortedPriority(acc.pwEntries[k])
                THEN Occurrences(acc.pwEntries, e)
                ELSE 0

\* C24 happens: with bestMatchOnly on, e1, e2, e3 were sorted for a submit URL of
\* another site, all three have priority 0 and all three were returned
C24_Witness ==
    /\ acc.done
    /\ Setting("bestMatchOnly")
    /\ acc.pwEntries = <<"e1", "e2", "e3">>
    /\ \A e \in Entries : SortedPriority(e) = 0
    /\ Len(acc.result) = 3

\* with bestMatchOnly on, the entry of the top priority alone was returned
C24_LowerBucketsDropped ==
    /\ acc.done
    /\ Setting("bestMatchOnly")
    /\ acc.pwEntries = <<"e2", "e1", "e3">>
    /\ acc.result = <<"e1">>

\* the client ids that hold a session
SessionIds == {id \in MessageClientIds \ {""} : acc.m_browserClients[id] # NoAction}

\* C25: m_browserClients holds exactly one session per distinct non-empty clientID
\* seen so far: each id that was seen has a session and no other id has, the sessions
\* of different ids are different objects and no more objects were created than ids
\* were seen, every message was dispatched to the session its id has, and no session
\* is ever removed or replaced.
C25_OneSessionPerClientId ==
    /\ [](/\ SessionIds = {acc.messages[k].clientID : k \in 1..Len(acc.messages)} \ {""}
          /\ \A a, b \in SessionIds :
                 a # b => acc.m_browserClients[a] # acc.m_browserClients[b]
          /\ acc.created = Cardinality(SessionIds)
          /\ \A k \in 1..Len(acc.messages) :
                 acc.messages[k].clientID # "" =>
                     acc.messages[k].action = acc.m_browserClients[acc.messages[k].clientID])
    /\ [][\A id \in SessionIds : acc'.m_browserClients[id] = acc.m_browserClients[id]]_vars

\* C25 happens: two messages of c1 and one of c2 were handed over, the two of c1 went
\* to the same session, and two sessions exist
C25_Witness ==
    /\ Len(acc.messages) = 3
    /\ acc.messages[1].clientID = "c1"
    /\ acc.messages[2].clientID = "c2"
    /\ acc.messages[3].clientID = "c1"
    /\ acc.messages[3].action = acc.messages[1].action
    /\ acc.messages[2].action # acc.messages[1].action
    /\ acc.created = 2

\* C26 as stated: sendClientMessage is called exactly once for every message whose
\* handler has returned, a message without a client id included.
C26_EveryMessageAnswered ==
    \A k \in 1..Len(acc.messages) : acc.messages[k].returned => acc.messages[k].sent = 1

\* C26 amended: sendClientMessage is called exactly once for every message with a
\* non-empty clientID (never before its call returns, once when it has returned, and
\* every call returns), and not at all for a message whose clientID is missing or empty.
C26_MessageWithIdAnswered ==
    /\ [](\A k \in 1..Len(acc.messages) :
             acc.messages[k].sent =
                 IF acc.messages[k].returned /\ acc.messages[k].clientID # "" THEN 1 ELSE 0)
    /\ \A k \in 1..MaxMessages :
          (Len(acc.messages) >= k) ~> (Len(acc.messages) >= k /\ acc.messages[k].returned)

\* C26 amended happens: a message of c1 was answered once, and a message without a
\* client id returned with nothing sent
C26_Witness ==
    /\ Len(acc.messages) >= 2
    /\ acc.messages[1].clientID = "c1"
    /\ acc.messages[1].returned
    /\ acc.messages[1].sent = 1
    /\ acc.messages[2].clientID = ""
    /\ acc.messages[2].returned
    /\ acc.messages[2].sent = 0

\* an association that exists is replaced only in the step in which the user chose
\* Overwrite for its label
ReplacedOnlyAfterOverwrite ==
    \A w \in DbWidgets, id \in ClientIds :
        (associations[w][id] # NoKey /\ associations'[w][id] # associations[w][id]) =>
            (acc.pc = "warning" /\ acc'.overwrite = id /\ acc.id = id)

\* storeKey returned nothing and the stored keys and times are those before the call
EmptyIdChangesNothing ==
    (acc.pc = "done" /\ acc.result = "") =>
        (associations = acc.before.keys /\ acc.created = acc.before.created)

\* C27 as stated: an association key that exists is replaced only after the user chose
\* Overwrite for that label; when storeKey returns an empty id the stored keys and
\* creation times are unchanged; and when storeKey returns a non-empty id, getKey(id)
\* returns the new key.
C27_StoredKeyIsRead ==
    /\ [](EmptyIdChangesNothing
          /\ ((acc.pc = "done" /\ acc.result # "") =>
                  getKey(acc.result, m_currentDatabaseWidget, locked) = acc.key))
    /\ [][ReplacedOnlyAfterOverwrite]_vars

\* the part of C27 that holds: the first two statements, and getKey(id) returns the
\* new key when the tab storeKey took its database from is still the current tab and
\* has not replaced its database since
C27_StoredKeyIsReadFromSameDatabase ==
    /\ [](EmptyIdChangesNothing
          /\ ((/\ acc.pc = "done"
               /\ acc.result # ""
               /\ ~acc.db.detached
               /\ acc.db.tab = m_currentDatabaseWidget) =>
                  getKey(acc.result, m_currentDatabaseWidget, locked) = acc.key))
    /\ [][ReplacedOnlyAfterOverwrite]_vars

\* C27 fails: while the label prompt was open the current tab changed from w1 to w2;
\* storeKey stored the key under c1 in the database of w1 and returned c1, and
\* getKey(c1) reads the database of w2, which holds no such key
C27_Witness ==
    /\ acc.pc = "done"
    /\ acc.result = "c1"
    /\ acc.db.tab = "w1"
    /\ ~acc.db.detached
    /\ associations["w1"]["c1"] = NewKey
    /\ m_currentDatabaseWidget = "w2"
    /\ ~locked["w2"]
    /\ getKey("c1", m_currentDatabaseWidget, locked) = NoKey

\* the database was locked while the overwrite prompt was open: storeKey returned c1
\* with the key set in an object no tab holds, and the stored key is the old one
C27_LockedDuringOverwritePrompt ==
    /\ acc.pc = "done"
    /\ acc.result = "c1"
    /\ acc.overwrite = "c1"
    /\ acc.db.detached
    /\ acc.db.keys["c1"] = NewKey
    /\ associations[acc.db.tab]["c1"] = "k1"

\* the user declined the overwrite and then cancelled the label prompt: nothing changed
C27_DeclinedThenCancelled ==
    /\ acc.pc = "done"
    /\ acc.result = ""
    /\ acc.id = "c1"
    /\ acc.before.keys[acc.db.tab]["c1"] = "k1"
    /\ associations = acc.before.keys

RECURSIVE ChainEnds(_, _)
ChainEnds(e, n) ==
    IF acc.references[e] \in {"none", "missing"} THEN TRUE
    ELSE IF acc.references[e] = "null" \/ n = 0 THEN FALSE
    ELSE ChainEnds(acc.references[e], n - 1)

\* C29 as stated: updateEntry terminates for every database content: the loop that
\* follows the password references is left after finitely many rounds, also when a
\* reference has a null UUID and when the references form a cycle.
C29_ReferenceLoopTerminates ==
    (acc.pc = "loop") ~> (acc.pc = "done")

\* what holds instead of C29: the loop is left when the references that start at the
\* entry form no cycle and none of them has a null UUID
C29_LoopTerminatesOnEndingChain ==
    (acc.pc = "loop" /\ ChainEnds(acc.entry, Cardinality(Entries))) ~> (acc.pc = "done")

\* C29 fails: the loop runs for the request of e2, the password of e2 refers to e1
\* and the password of e1 to e2, and the loop is at e2 with nothing to leave it by
C29_Witness ==
    /\ acc.pc = "loop"
    /\ acc.uuid = "e2"
    /\ acc.entry = "e2"
    /\ acc.references["e2"] = "e1"
    /\ acc.references["e1"] = "e2"

\* the loop is at an entry whose password is a reference with a null UUID: a round
\* was made and has left entry as it is
C29_NullReference ==
    /\ acc.pc = "loop"
    /\ acc.rounds = 1
    /\ acc.entry = acc.uuid
    /\ acc.references[acc.entry] = "null"

\* C30 as stated: when handleURL returns true for a page that is no local file, the
\* host of the page equals the host of the record or ends with "." followed by the
\* host of the record; a record for a.x.c does not match a page on ba.x.c.
C30_WildcardIsLabelAligned ==
    (acc.done /\ acc.result /\ ~ContainsStr(acc.url, FileScheme)) =>
        \/ PageHost = RecordHost
        \/ EndsWith(PageHost, <<".">> \o RecordHost)

\* what the code does instead of C30: when handleURL returns true for a page that is
\* no local file, the host of the page ends with the host of the record as a text, and
\* the two have the same registrable domain
C30_WildcardIsTextSuffix ==
    (acc.done /\ acc.result /\ ~ContainsStr(acc.url, FileScheme)) =>
        /\ EndsWith(PageHost, RecordHost)
        /\ baseDomain(PageHost) = baseDomain(RecordHost)

\* C30 fails: the record https://a.x.c was matched with the page https://ba.x.c
C30_Witness ==
    /\ acc.done
    /\ acc.result
    /\ acc.entryUrl = UrlAXC
    /\ acc.url = HttpsScheme \o SchemeSep \o HostBAXC
    /\ PageHost = HostBAXC
    /\ RecordHost = HostAXC

\* the values sortPriority returns for the record URLs, hosts and submit URLs of the
\* model, and for its entries
PriorityValues ==
    { sortPriority(entryUrl, host, SubmitUrlOf(submitUrl), BaseSubmitUrlOf(submitUrl)) :
        entryUrl \in PriorityRecordUrls, host \in PriorityHosts, submitUrl \in PrioritySubmitUrls }
        \cup { Priorities[e, u, s] : e \in Entries, u \in RequestUrls, s \in SortSubmitUrls }

\* the values of the loop  for (int i = 100; i >= 0; i -= 5)
LoopValues == { 5 * k : k \in 0..20 }

\* C31: sortPriority returns a multiple of 5 in [0,100], and with bestMatchOnly off
\* sortEntries returns a permutation of its input: every entry is in the result as
\* often as in the input, and the entries of priority 0 are kept and stand last.
C31_SortKeepsEveryEntry ==
    /\ PriorityValues \subseteq LoopValues
    /\ (acc.done /\ ~Setting("bestMatchOnly")) =>
          /\ Len(acc.result) = Len(acc.pwEntries)
          /\ \A e \in Entries : Occurrences(acc.result, e) = Occurrences(acc.pwEntries, e)
          /\ \A i, j \in 1..Len(acc.result) :
                 (SortedPriority(acc.result[i]) = 0 /\ SortedPriority(acc.result[j]) > 0) => j < i

\* C31 happens: with bestMatchOnly off, e2 (priority 0) twice and e1 (priority 100)
\* were sorted, and the result holds e1 and then e2 twice
C31_Witness ==
    /\ acc.done
    /\ ~Setting("bestMatchOnly")
    /\ acc.pwEntries = <<"e2", "e2", "e1">>
    /\ SortedPriority("e2") = 0
    /\ SortedPriority("e1") = 100
    /\ acc.result = <<"e1", "e2", "e2">>

====
